---- MODULE Spec2Model ----
(***************************************************************************)
(* Model of presidio_pii_masking/custom_recognizers.py: the Japanese       *)
(* person and address recognizers and the address overlap resolution.      *)
(*                                                                         *)
(* A text is a sequence of characters; a character is written as a short   *)
(* ASCII token, one token for one Python character:                        *)
(*   kanji     ju 住  sho 所  ji 自  taku 宅  zai 在  chi 地  tou 東       *)
(*             kyo 京  to 都  fu 府  sen 千  yo 代  da 田  ku 区  ba 葉    *)
(*             ken 県  shi 市  machi 町  mura 村  gun 郡  chou 丁  me 目   *)
(*             ban 番  gou 号  jou 条  toori 通  yoko 横  yama 山  ta 太   *)
(*             rou 郎  den 電  wa 話  kai 会  sha 社  tsugi 次  gyou 行    *)
(*             kei 携  tai 帯  yuu 郵  bin 便  gaku 学  kou 校  dai 大     *)
(*             byou 病  in 院  gin 銀  sa 支  ten 店  hon 本  nen 年        *)
(*             gatsu 月  nichi 日  uji 氏  kun 君  sama 様  dono 殿        *)
(*             saki 先  sei 生  kyou 教  ju2 授  haku 博  shi2 士          *)
(*             n1 一  n2 二  n3 三  n4 四  n5 五  n6 六  n7 七  n8 八      *)
(*             n9 九  n10 十  n100 百                                      *)
(*   hiragana  h_ha は  h_no の  h_de で  h_su す  h_ma ま  h_shi し       *)
(*             h_ta た  h_ku く  h_da だ  h_sa さ  h_i い  h_na な         *)
(*             h_a あ  h_ri り  h_n ん                                     *)
(*   katakana  k_me メ  k_bar ー  k_ru ル  k_a ア  k_do ド  k_re レ        *)
(*             k_su ス                                                     *)
(*   digits    "0".."9" ASCII, "F0".."F9" full width                       *)
(*   others    "-" hyphen  "F-" － (U+FF0D)  MINUS − (U+2212)              *)
(*             ":" colon  "F:" ： (U+FF1A)  "," "." ";" ASCII              *)
(*             "F," ，  "F;" ；  TOUTEN 、  KUTEN 。  NAKAGURO ・          *)
(*             POSTMARK 〒  LF \n  CR \r  SP space  TAB tab               *)
(*             ZSP U+3000  x an ASCII letter                               *)
(* Offsets are Python offsets (0-based, end exclusive).  Scores are the    *)
(* Python scores times 100 (0.75 -> 75, 0.8 -> 80, 0.85 -> 85, ...).       *)
(***************************************************************************)
EXTENDS Integers, Sequences, FiniteSets, TLC

VARIABLES text, entities, nlp_artifacts, candidates, results, previous, outcome, op,
          calls, valid, masker, recognizer, threads, expansion, command

vars == <<text, entities, nlp_artifacts, candidates, results, previous, outcome, op,
          calls, valid, masker, recognizer, threads, expansion, command>>

\* An optional list argument (entities; nlp_artifacts with its .entities):
\* None, or a list of items
None == [is_none |-> TRUE, items |-> <<>>]

Some(L) == [is_none |-> FALSE, items |-> L]

----------------------------------------------------------------------------
(* Bounds of the model *)

\* largest offset of a candidate handed to the overlap resolution
MaxPos == 6

\* longest candidate list handed to the overlap resolution
MaxCands == 2

\* number of consecutive applications of the overlap resolution
MaxCalls == 2

\* number of fragments an analysed text is put together from
MaxFrags == 3

\* longest text handed to the person validity filter
MaxNameLen == 4

----------------------------------------------------------------------------
(* Python sequence primitives *)

Min(S) == CHOOSE x \in S : \A y \in S : x <= y

Max(S) == CHOOSE x \in S : \A y \in S : x >= y

\* a slice index as Python reads it: a negative index counts from the end,
\* and the result is clamped to 0..n
SliceIndex(i, n) ==
  IF i < 0 THEN (IF n + i < 0 THEN 0 ELSE n + i) ELSE (IF i > n THEN n ELSE i)

\* t[a:b]; empty when the first index is not below the second
Slice(t, a, b) == SubSeq(t, SliceIndex(a, Len(t)) + 1, SliceIndex(b, Len(t)))

\* the character t[i] (0-based)
At(t, i) == t[i + 1]

----------------------------------------------------------------------------
(* JapaneseAddressRecognizer._remove_overlapping_results *)

\* mutant: ties on score broken by the larger start
KeyLess_StartDescending(a, b) ==
  a.score > b.score \/ (a.score = b.score /\ a.start > b.start)

\* mutant: the lower score sorts first
KeyLess_ScoreAscending(a, b) ==
  a.score < b.score \/ (a.score = b.score /\ a.start < b.start)

\* sort key (-x.score, x.start): a sorts strictly before b
KeyLess(a, b) == a.score > b.score \/ (a.score = b.score /\ a.start < b.start)

\* mutant: the sort is not stable, x goes before the elements with its key
RECURSIVE InsertSorted_BeforeEqual(_, _)
InsertSorted_BeforeEqual(x, S) ==
  IF S = <<>> THEN <<x>>
  ELSE IF ~KeyLess(Head(S), x) THEN <<x>> \o S
  ELSE <<Head(S)>> \o InsertSorted_BeforeEqual(x, Tail(S))

\* sorted(results, key=...) is stable: x goes after every element whose key
\* is not greater than its own
RECURSIVE InsertSorted(_, _)
InsertSorted(x, S) ==
  IF S = <<>> THEN <<x>>
  ELSE IF KeyLess(x, Head(S)) THEN <<x>> \o S
  ELSE <<Head(S)>> \o InsertSorted(x, Tail(S))

\* mutant: the list is walked in the order it was handed over
SortedResults_InputOrder(L) == L

RECURSIVE SortedResults(_)
SortedResults(L) ==
  IF L = <<>> THEN <<>>
  ELSE InsertSorted(L[Len(L)], SortedResults(SubSeq(L, 1, Len(L) - 1)))

\* overlap_length of result against existing (may be negative)
OverlapLength(result, existing) ==
  LET overlap_start == IF result.start >= existing.start THEN result.start ELSE existing.start
      overlap_end == IF result.end <= existing.end THEN result.end ELSE existing.end
  IN overlap_end - overlap_start

\* mutant: the threshold test written with >=
RatioAboveThreshold_Inclusive(overlap_length, result_length) ==
  10 * overlap_length >= 8 * result_length

\* overlap_length / result_length > 0.8 on floats.  For integers below 2^50
\* the correctly rounded quotient exceeds the double 0.8 exactly when
\* 10 * overlap_length > 8 * result_length (4/5 rounds to the literal 0.8).
RatioAboveThreshold(overlap_length, result_length) ==
  10 * overlap_length > 8 * result_length

\* mutant: the overlap-ratio check left out
IsContained_NoRatio(result, existing) ==
  \/ (result.start = existing.start /\ result.end = existing.end)
  \/ (result.start >= existing.start /\ result.end <= existing.end)

\* mutant: the overlap ratio taken against the length of the accepted result
IsContained_RatioOfExisting(result, existing) ==
  \/ (result.start = existing.start /\ result.end = existing.end)
  \/ (result.start >= existing.start /\ result.end <= existing.end)
  \/ (OverlapLength(result, existing) > 0
      /\ RatioAboveThreshold(OverlapLength(result, existing), existing.end - existing.start))

\* the body of the inner loop: does existing make result "is_contained"
IsContained(result, existing) ==
  \/ (result.start = existing.start /\ result.end = existing.end)
  \/ (result.start >= existing.start /\ result.end <= existing.end)
  \/ (OverlapLength(result, existing) > 0
      /\ RatioAboveThreshold(OverlapLength(result, existing), result.end - result.start))

\* mutant: an accepted result is put at the front of filtered_results
RECURSIVE FilterWalk_Prepend(_, _)
FilterWalk_Prepend(sorted, filtered) ==
  IF sorted = <<>> THEN filtered
  ELSE LET result == Head(sorted)
           is_contained == \E k \in 1..Len(filtered) : IsContained(result, filtered[k])
       IN FilterWalk_Prepend(Tail(sorted),
                             IF is_contained THEN filtered ELSE <<result>> \o filtered)

\* the greedy walk over sorted_results, filtered being the accepted list
RECURSIVE FilterWalk(_, _)
FilterWalk(sorted, filtered) ==
  IF sorted = <<>> THEN filtered
  ELSE LET result == Head(sorted)
           is_contained == \E k \in 1..Len(filtered) : IsContained(result, filtered[k])
       IN FilterWalk(Tail(sorted), IF is_contained THEN filtered ELSE Append(filtered, result))

RemoveOverlappingResults(L) ==
  IF L = <<>> THEN L ELSE FilterWalk(SortedResults(L), <<>>)

\* mutant: the quotient is formed whatever the overlap is
DivisionReached_NoOverlapTest(result, existing) ==
  /\ ~(result.start = existing.start /\ result.end = existing.end)
  /\ ~(result.start >= existing.start /\ result.end <= existing.end)

\* the inner loop gets to overlap_length / result_length for this pair: the
\* two tests before it did not break, and "and" evaluates its right operand
DivisionReached(result, existing) ==
  /\ ~(result.start = existing.start /\ result.end = existing.end)
  /\ ~(result.start >= existing.start /\ result.end <= existing.end)
  /\ OverlapLength(result, existing) > 0

\* ZeroDivisionError in the inner loop for result: the loop reaches an
\* accepted result (none before it broke the loop) for which the quotient is
\* formed, and result_length is 0
RaisesAt(result, filtered) ==
  \E k \in 1..Len(filtered) :
    /\ \A j \in 1..(k - 1) : ~IsContained(result, filtered[j])
    /\ DivisionReached(result, filtered[k])
    /\ result.end - result.start = 0

\* ZeroDivisionError somewhere in the walk over sorted_results
WalkRaises(sorted) ==
  \E i \in 1..Len(sorted) :
    RaisesAt(sorted[i], FilterWalk(SubSeq(sorted, 1, i - 1), <<>>))

----------------------------------------------------------------------------
(* Characters and Python string primitives *)

\* [0-9]
AsciiDigits == {"0", "1", "2", "3", "4", "5", "6", "7", "8", "9"}

\* [０-９]
FullDigits == {"F0", "F1", "F2", "F3", "F4", "F5", "F6", "F7", "F8", "F9"}

\* \d on a str pattern matches every Unicode decimal digit
UnicodeDigits == AsciiDigits \cup FullDigits

\* \s, and the characters str.strip() removes
Whitespace == {"SP", "LF", "CR", "TAB", "ZSP"}

\* [一-龯々]
Han ==
  {"ju", "sho", "ji", "taku", "zai", "chi", "tou", "kyo", "to", "fu", "sen", "yo",
   "da", "ku", "ba", "ken", "shi", "machi", "mura", "gun", "chou", "me", "ban",
   "gou", "jou", "toori", "yoko", "yama", "ta", "rou", "den", "wa", "kai", "sha",
   "tsugi", "gyou", "kei", "tai", "yuu", "bin", "gaku", "kou", "dai", "byou", "in",
   "gin", "sa", "ten", "hon", "nen", "gatsu", "nichi", "uji", "kun", "sama",
   "dono", "saki", "sei", "kyou", "ju2", "haku", "shi2",
   "n1", "n2", "n3", "n4", "n5", "n6", "n7", "n8", "n9", "n10", "n100"}

\* [ぁ-んァ-ン] (the long-vowel mark ー, U+30FC, lies outside ァ-ン)
Kana ==
  {"h_ha", "h_no", "h_de", "h_su", "h_ma", "h_shi", "h_ta", "h_ku", "h_da", "h_sa",
   "h_i", "h_na", "h_a", "h_ri", "h_n",
   "k_me", "k_ru", "k_a", "k_do", "k_re", "k_su"}

\* [一二三四五六七八九十]
HanNumerals == {"n1", "n2", "n3", "n4", "n5", "n6", "n7", "n8", "n9", "n10"}

\* t[i:i+len(w)] == w
MatchAt(t, w, i) ==
  i >= 0 /\ i + Len(w) <= Len(t) /\ \A j \in 1..Len(w) : t[i + j] = w[j]

\* w in t
Contains(t, w) == \E i \in 0..(Len(t) - Len(w)) : MatchAt(t, w, i)

\* t.rfind(w), -1 when absent
RFind(t, w) ==
  LET hits == {i \in 0..(Len(t) - Len(w)) : MatchAt(t, w, i)}
  IN IF hits = {} THEN -1 ELSE Max(hits)

\* t.strip()
Strip(t) ==
  LET solid == {i \in 1..Len(t) : t[i] \notin Whitespace}
  IN IF solid = {} THEN <<>> ELSE SubSeq(t, Min(solid), Max(solid))

\* every character of t[a:b] is in S, and b is within t
AllIn(t, a, b, S) == b <= Len(t) /\ \A j \in a..(b - 1) : At(t, j) \in S

\* end of the longest run of characters of S that starts at i (greedy S*)
RunEnd(t, i, S) ==
  LET stops == {j \in i..(Len(t) - 1) : At(t, j) \notin S}
  IN IF stops = {} THEN Len(t) ELSE Min(stops)

\* re.finditer of a literal word: the non-overlapping occurrences, left to
\* right, as (start, end) pairs
RECURSIVE FindIterLiteral(_, _, _)
FindIterLiteral(t, w, from) ==
  LET hits == {i \in from..(Len(t) - Len(w)) : MatchAt(t, w, i)}
  IN IF hits = {} THEN <<>>
     ELSE <<<<Min(hits), Min(hits) + Len(w)>>>>
            \o FindIterLiteral(t, w, Min(hits) + Len(w))

\* re.finditer of a pattern without look-behind: endAt[i] is the end of the
\* match the pattern finds when tried at i, or -1; the scan resumes at the end
\* of each match
RECURSIVE ScanMatches(_, _, _)
ScanMatches(endAt, n, from) ==
  LET hits == {i \in from..(n - 1) : endAt[i] # -1}
  IN IF hits = {} THEN <<>>
     ELSE <<<<Min(hits), endAt[Min(hits)]>>>> \o ScanMatches(endAt, n, endAt[Min(hits)])

\* "$" also matches before a final line break
RegexCore(t) ==
  IF Len(t) > 0 /\ t[Len(t)] = "LF" THEN {t, SubSeq(t, 1, Len(t) - 1)} ELSE {t}

----------------------------------------------------------------------------
(* JapaneseAddressRecognizer: the lists set up by __init__ and analyze *)

\* self.prefectures, in source order, restricted to the names that can be
\* written with the characters above (千葉県, 東京都, 京都府); no other name
\* can occur in a text over these characters
Prefectures ==
  << <<"sen", "ba", "ken">>, <<"tou", "kyo", "to">>, <<"kyo", "to", "fu">> >>

\* self.address_keywords, in source order, restricted in the same way
\* (市 区 町 村 郡 丁目 番地 号 住宅)
AddressKeywords ==
  << <<"shi">>, <<"ku">>, <<"machi">>, <<"mura">>, <<"gun">>, <<"chou", "me">>,
     <<"ban", "chi">>, <<"gou">>, <<"ju", "taku">> >>

\* context_words of analyze: 住所 自宅 所在地 住所は 住所： 自宅は 自宅：
\* 所在地は 所在地：
ContextWords ==
  << <<"ju", "sho">>, <<"ji", "taku">>, <<"sho", "zai", "chi">>,
     <<"ju", "sho", "h_ha">>, <<"ju", "sho", "F:">>,
     <<"ji", "taku", "h_ha">>, <<"ji", "taku", "F:">>,
     <<"sho", "zai", "chi", "h_ha">>, <<"sho", "zai", "chi", "F:">> >>

\* [一-龯々ぁ-んァ-ン0-9０-９a-zA-Z\-－・\s] of the first address pattern
PrefectureBodyChars ==
  Han \cup Kana \cup AsciiDigits \cup FullDigits \cup {"x", "-", "F-", "NAKAGURO"}
      \cup Whitespace

\* [市区町村郡]
MunicipalityMarkers == {"shi", "ku", "machi", "mura", "gun"}

\* [一-龯々ぁ-んァ-ン0-9０-９] of the third address pattern
BlockBodyChars == Han \cup Kana \cup AsciiDigits \cup FullDigits

\* (?:丁目|番町|条|番地|番|通|町目|条通|の町|横町) in the order of the alternation
BlockMarkers ==
  << <<"chou", "me">>, <<"ban", "machi">>, <<"jou">>, <<"ban", "chi">>, <<"ban">>,
     <<"toori">>, <<"machi", "me">>, <<"jou", "toori">>, <<"h_no", "machi">>,
     <<"yoko", "machi">> >>

\* [-−0-9０-９一二三四五六七八九十百千] of the third address pattern
BlockTailChars ==
  {"-", "MINUS"} \cup AsciiDigits \cup FullDigits \cup HanNumerals \cup {"n100", "sen"}

\* [-−0-9０-９一二三四五六七八九十] of _expand_address_span
ExpandNumberChars ==
  {"-", "MINUS"} \cup AsciiDigits \cup FullDigits \cup HanNumerals

\* [。、.，,；;:\n\r] of _expand_address_span
ExpandDelimiters == {"KUTEN", "TOUTEN", ".", "F,", ",", "F;", ";", ":", "LF", "CR"}

----------------------------------------------------------------------------
(* JapaneseAddressRecognizer._has_address_features, _is_valid_address *)

\* ([0-9０-９一二三四五六七八九十]+)(丁目|番地|号|番|条|町目|区|市)
NumberedMarkers ==
  << <<"chou", "me">>, <<"ban", "chi">>, <<"gou">>, <<"ban">>, <<"jou">>,
     <<"machi", "me">>, <<"ku">>, <<"shi">> >>

HasNumberedMarker(t) ==
  \E i \in 0..(Len(t) - 1) :
    /\ At(t, i) \in AsciiDigits \cup FullDigits \cup HanNumerals
    /\ \E k \in 1..Len(NumberedMarkers) : MatchAt(t, NumberedMarkers[k], i + 1)

\* [0-9０-９]{1,3}[-－][0-9０-９]{1,3}[-－][0-9０-９]{1,3}
HasDashedNumbers(t) ==
  \E i \in 0..(Len(t) - 1) : \E m \in 1..3 :
    /\ At(t, i) \in AsciiDigits \cup FullDigits
    /\ i + 1 < Len(t) /\ At(t, i + 1) \in {"-", "F-"}
    /\ AllIn(t, i + 2, i + 2 + m, AsciiDigits \cup FullDigits)
    /\ i + 2 + m < Len(t) /\ At(t, i + 2 + m) \in {"-", "F-"}
    /\ i + 3 + m < Len(t) /\ At(t, i + 3 + m) \in AsciiDigits \cup FullDigits

HasAddressFeatures(t) ==
  \/ \E k \in 1..Len(Prefectures) : Contains(t, Prefectures[k])
  \/ \E k \in 1..Len(AddressKeywords) : Contains(t, AddressKeywords[k])
  \/ HasNumberedMarker(t)
  \/ HasDashedNumbers(t)

\* ^\d{3}-\d{4}$
IsBarePostalCode(t) ==
  \E c \in RegexCore(t) :
    Len(c) = 8 /\ AllIn(c, 0, 3, UnicodeDigits) /\ At(c, 3) = "-"
               /\ AllIn(c, 4, 8, UnicodeDigits)

\* ^\d{4}年\d{1,2}月\d{1,2}日$
IsDate(t) ==
  \E c \in RegexCore(t) : \E m \in 1..2 : \E d \in 1..2 :
    /\ Len(c) = 7 + m + d
    /\ AllIn(c, 0, 4, UnicodeDigits) /\ At(c, 4) = "nen"
    /\ AllIn(c, 5, 5 + m, UnicodeDigits) /\ At(c, 5 + m) = "gatsu"
    /\ AllIn(c, 6 + m, 6 + m + d, UnicodeDigits) /\ At(c, 6 + m + d) = "nichi"

\* ^\d{11,12}$
IsLongNumber(t) ==
  \E c \in RegexCore(t) : Len(c) \in 11..12 /\ AllIn(c, 0, Len(c), UnicodeDigits)

\* ^\d{2,4}-\d{2,4}-\d{4}$
IsPhoneNumber(t) ==
  \E c \in RegexCore(t) : \E a \in 2..4 : \E b \in 2..4 :
    /\ Len(c) = a + b + 6
    /\ AllIn(c, 0, a, UnicodeDigits) /\ At(c, a) = "-"
    /\ AllIn(c, a + 1, a + 1 + b, UnicodeDigits) /\ At(c, a + 1 + b) = "-"
    /\ AllIn(c, a + 2 + b, a + 6 + b, UnicodeDigits)

IsValidAddress(t) ==
  IF IsBarePostalCode(t) THEN FALSE
  ELSE IF IsDate(t) THEN FALSE
  ELSE IF IsLongNumber(t) THEN FALSE
  ELSE IF IsPhoneNumber(t) THEN FALSE
  ELSE HasAddressFeatures(t)

----------------------------------------------------------------------------
(* JapaneseAddressRecognizer._expand_address_span *)

\* mutant: the test pref_pos != -1 left out
ExpandStart_NoFoundCheck(t, start) ==
  LET pre_text == Slice(t, 0, start)
      pref_pos == [k \in 1..Len(Prefectures) |-> RFind(pre_text, Prefectures[k])]
      near == {k \in 1..Len(Prefectures) : start - pref_pos[k] < 30}
  IN IF near = {} THEN start ELSE pref_pos[Min(near)]

\* the loop over self.prefectures: the first name of the list found before
\* start, and less than 30 characters before it, becomes the new start
ExpandStart(t, start) ==
  LET pre_text == Slice(t, 0, start)
      pref_pos == [k \in 1..Len(Prefectures) |-> RFind(pre_text, Prefectures[k])]
      near == {k \in 1..Len(Prefectures) : pref_pos[k] # -1 /\ start - pref_pos[k] < 30}
  IN IF near = {} THEN start ELSE pref_pos[Min(near)]

\* mutant: the number is searched in all the text after end
ExpandEnd_NoWindow(t, end) ==
  LET post_text == Slice(t, end, Len(t))
      num_starts == {i \in 0..(Len(post_text) - 1) : At(post_text, i) \in ExpandNumberChars}
  IN IF num_starts = {} THEN end
     ELSE LET num_end == RunEnd(post_text, Min(num_starts), ExpandNumberChars)
              rest == Slice(post_text, num_end, Len(post_text))
              delims == {i \in 0..(Len(rest) - 1) : At(rest, i) \in ExpandDelimiters}
              extended_end == IF delims = {} THEN end + num_end
                              ELSE end + num_end + Min(delims)
          IN IF Len(t) <= extended_end THEN Len(t) ELSE extended_end

\* the search for a number in the 30 characters after end, and for the
\* delimiter after that number
ExpandEnd(t, end) ==
  LET post_text == Slice(t, end, IF Len(t) <= end + 30 THEN Len(t) ELSE end + 30)
      num_starts == {i \in 0..(Len(post_text) - 1) : At(post_text, i) \in ExpandNumberChars}
  IN IF num_starts = {} THEN end
     ELSE LET num_end == RunEnd(post_text, Min(num_starts), ExpandNumberChars)
              rest == Slice(post_text, num_end, Len(post_text))
              delims == {i \in 0..(Len(rest) - 1) : At(rest, i) \in ExpandDelimiters}
              extended_end == IF delims = {} THEN end + num_end
                              ELSE end + num_end + Min(delims)
          IN IF Len(t) <= extended_end THEN Len(t) ELSE extended_end

ExpandAddressSpan(t, start, end) == <<ExpandStart(t, start), ExpandEnd(t, end)>>

----------------------------------------------------------------------------
(* JapaneseAddressRecognizer.address_patterns *)

\* (?:<prefecture>)(?:[...]{2,30}[市区町村郡]) tried at i: the body is greedy,
\* so the match ends at the last marker the body can reach.  No prefecture
\* name is a prefix of another, so at most one alternative matches at i.
PrefecturePatternEndAt(t, i) ==
  LET names == {k \in 1..Len(Prefectures) : MatchAt(t, Prefectures[k], i)}
  IN IF names = {} THEN -1
     ELSE LET body == i + Len(Prefectures[Min(names)])
              reach == RunEnd(t, body, PrefectureBodyChars)
              ends == {e \in (body + 3)..reach :
                         e - 1 - body <= 30 /\ At(t, e - 1) \in MunicipalityMarkers}
          IN IF ends = {} THEN -1 ELSE Max(ends)

\* 〒\d{3}[-−]?\d{4} tried at i
PostalPatternEndAt(t, i) ==
  IF ~(At(t, i) = "POSTMARK" /\ AllIn(t, i + 1, i + 4, UnicodeDigits)) THEN -1
  ELSE IF i + 4 < Len(t) /\ At(t, i + 4) \in {"-", "MINUS"}
          /\ AllIn(t, i + 5, i + 9, UnicodeDigits) THEN i + 9
  ELSE IF AllIn(t, i + 4, i + 8, UnicodeDigits) THEN i + 8
  ELSE -1

\* [...]+(?:丁目|...|横町)([...]+)? tried at i: the body is greedy and gives
\* characters back until a marker follows; the first marker of the
\* alternation that matches there is taken; the numeric tail is greedy
BlockPatternEndAt(t, i) ==
  LET reach == RunEnd(t, i, BlockBodyChars)
      bodies == {b \in (i + 1)..reach :
                   \E k \in 1..Len(BlockMarkers) : MatchAt(t, BlockMarkers[k], b)}
  IN IF bodies = {} THEN -1
     ELSE LET b == Max(bodies)
              k == Min({m \in 1..Len(BlockMarkers) : MatchAt(t, BlockMarkers[m], b)})
          IN RunEnd(t, b + Len(BlockMarkers[k]), BlockTailChars)

\* number of entries of self.address_patterns
AddressPatternCount == 3

PatternEndAt(t, p, i) ==
  CASE p = 1 -> PrefecturePatternEndAt(t, i)
    [] p = 2 -> PostalPatternEndAt(t, i)
    [] p = 3 -> BlockPatternEndAt(t, i)

\* re.finditer(pattern, text) as (start, end) pairs
PatternMatches(t, p) ==
  ScanMatches([i \in 0..(Len(t) - 1) |-> PatternEndAt(t, p, i)], Len(t), 0)

----------------------------------------------------------------------------
(* The texts the recognizers are run on *)

\* the pieces the analysed texts are put together from: 住所, 住所：,
\* 東京都千代田区, 1-1-1, 1丁目, "\n次の行", a space, 山田太郎, さん, 電話
Fragments ==
  { <<"ju", "sho">>,
    <<"ju", "sho", "F:">>,
    <<"tou", "kyo", "to", "sen", "yo", "da", "ku">>,
    <<"1", "-", "1", "-", "1">>,
    <<"1", "chou", "me">>,
    <<"LF", "tsugi", "h_no", "gyou">>,
    <<"SP">>,
    <<"yama", "da", "ta", "rou">>,
    <<"h_sa", "h_n">>,
    <<"den", "wa">> }

RECURSIVE Concat(_)
Concat(frs) == IF frs = <<>> THEN <<>> ELSE Head(frs) \o Concat(Tail(frs))

FragmentLists == UNION {[1..n -> Fragments] : n \in 0..MaxFrags}

\* the analysed texts
Texts == {Concat(frs) : frs \in FragmentLists}

----------------------------------------------------------------------------
(* JapaneseAddressRecognizer.analyze *)

\* mutant: an empty or absent entity list requests nothing
CheckEntitySupported_NoDefault(ents, entity_type) ==
  \E k \in 1..Len(ents.items) : ents.items[k] = entity_type

\* check_entity_supported (the same code in both recognizers)
CheckEntitySupported(ents, entity_type) ==
  IF ents.is_none \/ ents.items = <<>> THEN TRUE
  ELSE \E k \in 1..Len(ents.items) : ents.items[k] = entity_type

\* context_positions: for each context word in turn, its occurrences
RECURSIVE ContextPositionsFrom(_, _)
ContextPositionsFrom(t, k) ==
  IF k > Len(ContextWords) THEN <<>>
  ELSE FindIterLiteral(t, ContextWords[k], 0) \o ContextPositionsFrom(t, k + 1)

ContextPositions(t) == ContextPositionsFrom(t, 1)

\* start of re.search(r"[\n\r]|(<context words>)", remaining_text), -1 if none
EndMatchStart(remaining_text) ==
  LET hits == {i \in 0..(Len(remaining_text) - 1) :
                 \/ At(remaining_text, i) \in {"LF", "CR"}
                 \/ \E k \in 1..Len(ContextWords) : MatchAt(remaining_text, ContextWords[k], i)}
  IN IF hits = {} THEN -1 ELSE Min(hits)

\* address_candidate for the context word that ends at ctx_end
AddressCandidate(t, ctx_end) ==
  LET remaining_text == Slice(t, ctx_end, Len(t))
      end_match == EndMatchStart(remaining_text)
  IN Strip(IF end_match # -1 THEN Slice(remaining_text, 0, end_match) ELSE remaining_text)

\* mutant: a candidate of exactly 4 characters is emitted too
ContextEmits_FourOrMore(t, ctx_end) ==
  LET address_candidate == AddressCandidate(t, ctx_end)
  IN Len(address_candidate) >= 4 /\ HasAddressFeatures(address_candidate)

ContextEmits(t, ctx_end) ==
  LET address_candidate == AddressCandidate(t, ctx_end)
  IN Len(address_candidate) > 4 /\ HasAddressFeatures(address_candidate)

ContextResult(t, ctx_end) ==
  LET address_candidate == AddressCandidate(t, ctx_end)
  IN [entity_type |-> "ADDRESS",
      start |-> ctx_end,
      end |-> ctx_end + Len(address_candidate),
      score |-> 90,
      source |-> "context_pattern",
      entity_value |-> address_candidate]

\* the first loop of analyze, over context_positions
ContextResults(t, context_positions) ==
  LET kept == SelectSeq(context_positions, LAMBDA p : ContextEmits(t, p[2]))
  IN [k \in 1..Len(kept) |-> ContextResult(t, kept[k][2])]

\* mutant: a distance of exactly 20 also raises the score
PatternScore_Inclusive(context_positions, start) ==
  IF \E k \in 1..Len(context_positions) :
       LET d == context_positions[k][2] - start
       IN (IF d < 0 THEN -d ELSE d) <= 20
  THEN 95 ELSE 80

\* score of a pattern match that starts at start
PatternScore(context_positions, start) ==
  IF \E k \in 1..Len(context_positions) :
       LET d == context_positions[k][2] - start
       IN (IF d < 0 THEN -d ELSE d) < 20
  THEN 95 ELSE 80

PatternResult(t, context_positions, start, end) ==
  LET span == ExpandAddressSpan(t, start, end)
  IN [entity_type |-> "ADDRESS",
      start |-> span[1],
      end |-> span[2],
      score |-> PatternScore(context_positions, start),
      source |-> "pattern_matching",
      entity_value |-> Slice(t, span[1], span[2])]

\* the results of one pattern of self.address_patterns
PatternResultsOf(t, context_positions, p) ==
  LET kept == SelectSeq(PatternMatches(t, p), LAMBDA m : IsValidAddress(Slice(t, m[1], m[2])))
  IN [k \in 1..Len(kept) |-> PatternResult(t, context_positions, kept[k][1], kept[k][2])]

\* the second loop of analyze, over self.address_patterns
RECURSIVE PatternResultsFrom(_, _, _)
PatternResultsFrom(t, context_positions, p) ==
  IF p > AddressPatternCount THEN <<>>
  ELSE PatternResultsOf(t, context_positions, p)
         \o PatternResultsFrom(t, context_positions, p + 1)

PatternResults(t, context_positions) == PatternResultsFrom(t, context_positions, 1)

LocResult(t, entity) ==
  LET span == ExpandAddressSpan(t, entity.start_char, entity.end_char)
  IN [entity_type |-> "ADDRESS",
      start |-> span[1],
      end |-> span[2],
      score |-> 75,
      source |-> "spacy_model",
      entity_value |-> Slice(t, span[1], span[2])]

\* mutant: the label of the entity is not looked at
LocResults_AnyLabel(t, ents) ==
  LET kept == SelectSeq(ents, LAMBDA e :
                  HasAddressFeatures(Slice(t, e.start_char, e.end_char)))
  IN [k \in 1..Len(kept) |-> LocResult(t, kept[k])]

\* the third loop of analyze, over nlp_artifacts.entities
LocResults(t, ents) ==
  LET kept == SelectSeq(ents, LAMBDA e :
                  e.label = "LOC" /\ HasAddressFeatures(Slice(t, e.start_char, e.end_char)))
  IN [k \in 1..Len(kept) |-> LocResult(t, kept[k])]

\* results as built by the first two loops
PatternAndContextResults(t) ==
  LET context_positions == ContextPositions(t)
  IN ContextResults(t, context_positions) \o PatternResults(t, context_positions)

\* PatternAndContextResults of every analysed text, computed once
PatternAndContextTable == [t \in Texts |-> PatternAndContextResults(t)]

PatternAndContextOf(t) ==
  IF t \in Texts THEN PatternAndContextTable[t] ELSE PatternAndContextResults(t)

\* analyze: what the call does (returns, or raises on nlp_artifacts.entities
\* of None), the list built before the resolution and the list returned
AddressAnalyze(t, ents, arts) ==
  IF ~CheckEntitySupported(ents, "ADDRESS")
  THEN [outcome |-> "returned", candidates |-> <<>>, results |-> <<>>]
  ELSE IF arts.is_none
  THEN [outcome |-> "AttributeError",
        candidates |-> PatternAndContextOf(t),
        results |-> <<>>]
  ELSE LET built == PatternAndContextOf(t) \o LocResults(t, arts.items)
       IN [outcome |-> "returned",
           candidates |-> built,
           results |-> RemoveOverlappingResults(built)]

----------------------------------------------------------------------------
(* JapanesePersonRecognizer *)

\* exclusions of _is_valid_person_name: 電話 電話番号 携帯 メール メールアドレス
\* 住所 郵便番号 会社 学校 大学 病院 銀行 支店 本店 本社 です ます ました
\* ください なし あり
Exclusions ==
  << <<"den", "wa">>, <<"den", "wa", "ban", "gou">>, <<"kei", "tai">>,
     <<"k_me", "k_bar", "k_ru">>,
     <<"k_me", "k_bar", "k_ru", "k_a", "k_do", "k_re", "k_su">>,
     <<"ju", "sho">>, <<"yuu", "bin", "ban", "gou">>, <<"kai", "sha">>,
     <<"gaku", "kou">>, <<"dai", "gaku">>, <<"byou", "in">>, <<"gin", "gyou">>,
     <<"sa", "ten">>, <<"hon", "ten">>, <<"hon", "sha">>,
     <<"h_de", "h_su">>, <<"h_ma", "h_su">>, <<"h_ma", "h_shi", "h_ta">>,
     <<"h_ku", "h_da", "h_sa", "h_i">>, <<"h_na", "h_shi">>, <<"h_a", "h_ri">> >>

\* mutant: the length test made on the untrimmed text
IsValidPersonName_NoStrip(t) ==
  IF \E k \in 1..Len(Exclusions) : Contains(t, Exclusions[k]) THEN FALSE
  ELSE IF Len(t) < 3 THEN FALSE
  ELSE TRUE

\* _is_valid_person_name
IsValidPersonName(t) ==
  IF \E k \in 1..Len(Exclusions) : Contains(t, Exclusions[k]) THEN FALSE
  ELSE IF Len(Strip(t)) < 3 THEN FALSE
  ELSE TRUE

\* context_words of the pattern source: さん 氏 君 様 殿 先生 教授 博士
Honorifics ==
  << <<"h_sa", "h_n">>, <<"uji">>, <<"kun">>, <<"sama">>, <<"dono">>,
     <<"saki", "sei">>, <<"kyou", "ju2">>, <<"haku", "shi2">> >>

\* (?<![ぁ-んァ-ン一-龯々])[一-龯々]{2,4}\s*[一-龯々]{1,3}(?![ぁ-んァ-ン一-龯々])
\* tried at i.  The ways to match are (a, w, b): a family-name characters, w
\* white-space characters, b given-name characters; the engine prefers the
\* larger a, then the larger w, then the larger b.  Every match begins with a
\* character of [一-龯々], so the shapes are only looked for at such a character.
NameShapes(t, i) ==
  {s \in (2..4) \X (0..(Len(t) - i)) \X (1..3) :
     /\ i + s[1] + s[2] + s[3] <= Len(t)
     /\ AllIn(t, i, i + s[1], Han)
     /\ AllIn(t, i + s[1], i + s[1] + s[2], Whitespace)
     /\ AllIn(t, i + s[1] + s[2], i + s[1] + s[2] + s[3], Han)
     /\ (i + s[1] + s[2] + s[3] < Len(t)
           => At(t, i + s[1] + s[2] + s[3]) \notin Kana \cup Han)}

NamePatternEndAt(t, i) ==
  IF i > 0 /\ At(t, i - 1) \in Kana \cup Han THEN -1
  ELSE IF At(t, i) \notin Han THEN -1
  ELSE LET shapes == NameShapes(t, i)
       IN IF shapes = {} THEN -1
          ELSE LET best == CHOOSE s \in shapes :
                             \A o \in shapes :
                               \/ s[1] > o[1]
                               \/ (s[1] = o[1] /\ s[2] > o[2])
                               \/ (s[1] = o[1] /\ s[2] = o[2] /\ s[3] >= o[3])
               IN i + best[1] + best[2] + best[3]

\* re.finditer(common_name_pattern, text) as (start, end) pairs
NameMatches(t) ==
  ScanMatches([i \in 0..(Len(t) - 1) |-> NamePatternEndAt(t, i)], Len(t), 0)

\* NameMatches of every analysed text, computed once
NameMatchTable == [t \in Texts |-> NameMatches(t)]

NameMatchesOf(t) ==
  IF t \in Texts THEN NameMatchTable[t] ELSE NameMatches(t)

\* the loop over the honorifics after a match that ends at end
NameScore(t, end) ==
  IF \E k \in 1..Len(Honorifics) : MatchAt(t, Honorifics[k], end) THEN 85 ELSE 75

\* the first loop of analyze, over nlp_artifacts.entities
PersonNlpResults(t, ents) ==
  LET kept == SelectSeq(ents, LAMBDA e :
                  e.label = "PERSON"
                  /\ IsValidPersonName(Slice(t, e.start_char, e.end_char)))
  IN [k \in 1..Len(kept) |->
        [entity_type |-> "PERSON",
         start |-> kept[k].start_char,
         end |-> kept[k].end_char,
         score |-> 85,
         source |-> "spacy_model",
         entity_value |-> Slice(t, kept[k].start_char, kept[k].end_char)]]

\* the second loop of analyze, over the matches of common_name_pattern
PersonPatternResults(t) ==
  LET kept == SelectSeq(NameMatchesOf(t), LAMBDA m :
                  /\ IsValidPersonName(Slice(t, m[1], m[2]))
                  /\ m[2] - m[1] >= 3
                  /\ m[2] - m[1] <= 8)
  IN [k \in 1..Len(kept) |->
        [entity_type |-> "PERSON",
         start |-> kept[k][1],
         end |-> kept[k][2],
         score |-> NameScore(t, kept[k][2]),
         source |-> "pattern_matching",
         entity_value |-> Slice(t, kept[k][1], kept[k][2])]]

\* PersonPatternResults of every analysed text, computed once
PersonPatternTable == [t \in Texts |-> PersonPatternResults(t)]

PersonPatternOf(t) ==
  IF t \in Texts THEN PersonPatternTable[t] ELSE PersonPatternResults(t)

\* mutant: a pattern match whose span an NLP result already has is not added
PersonAnalyze_Deduplicated(t, ents, arts) ==
  IF ~CheckEntitySupported(ents, "PERSON")
  THEN [outcome |-> "returned", candidates |-> <<>>, results |-> <<>>]
  ELSE IF arts.is_none
  THEN [outcome |-> "AttributeError", candidates |-> <<>>, results |-> <<>>]
  ELSE LET nlp == PersonNlpResults(t, arts.items)
           built == nlp \o SelectSeq(PersonPatternOf(t), LAMBDA r :
                       ~\E k \in 1..Len(nlp) :
                          nlp[k].start = r.start /\ nlp[k].end = r.end)
       IN [outcome |-> "returned", candidates |-> built, results |-> built]

\* analyze: what the call does (returns, or raises on nlp_artifacts.entities
\* of None) and the list returned; the person recognizer resolves no overlaps
PersonAnalyze(t, ents, arts) ==
  IF ~CheckEntitySupported(ents, "PERSON")
  THEN [outcome |-> "returned", candidates |-> <<>>, results |-> <<>>]
  ELSE IF arts.is_none
  THEN [outcome |-> "AttributeError", candidates |-> <<>>, results |-> <<>>]
  ELSE LET built == PersonNlpResults(t, arts.items) \o PersonPatternOf(t)
       IN [outcome |-> "returned", candidates |-> built, results |-> built]

----------------------------------------------------------------------------
(* The objects that exist before any call *)

\* an optional operators mapping (None, or a dict from entity type to
\* operator description)
NoOperators == [is_none |-> TRUE, map |-> <<>>]

SomeOperators(m) == [is_none |-> FALSE, map |-> m]

\* no PIIMasker has been constructed
NoMasker ==
  [constructed |-> FALSE,
   anonymizer_default |-> "none",
   config |-> [operators |-> <<>>, default_operator |-> [operator |-> "replace", params |-> "{}"]],
   operators |-> NoOperators,
   analysis_results |-> <<>>,
   operator_configs |-> <<>>,
   anonymizer_called |-> FALSE,
   applied |-> <<>>,
   output |-> [kind |-> "none", text |-> <<>>]]

\* the fields JapaneseAddressRecognizer.__init__ sets; the patterns are named
\* by their number in self.address_patterns
ConstructedRecognizer ==
  [prefectures |-> Prefectures,
   address_patterns |-> [p \in 1..AddressPatternCount |-> p],
   address_keywords |-> AddressKeywords]

\* _expand_address_span has not been called
NoExpansion == [called |-> FALSE, start |-> 0, end |-> 0, new_start |-> 0, new_end |-> 0]

\* mask has not been called
NoCommand ==
  [step |-> "not started",
   config_file |-> FALSE,
   input_file |-> FALSE,
   output_file |-> FALSE,
   ran |-> <<>>,
   failed |-> "none",
   exit_code |-> -1,
   file_before |-> "absent",
   file |-> "absent",
   printed |-> FALSE]

----------------------------------------------------------------------------
(* Specification of the overlap resolution on its own *)

\* scores of the candidates handed to the resolution (0.8 and 0.9)
ResolveScores == {80, 90}

ResolveCandidates ==
  {[start |-> s, end |-> e, score |-> sc] :
     s \in 0..MaxPos, e \in 0..MaxPos, sc \in ResolveScores}

\* candidates satisfy start <= end, as every result the recognizer creates
ValidCandidates == {c \in ResolveCandidates : c.start <= c.end}

InitResolve ==
  /\ \E n \in 0..MaxCands : candidates \in [1..n -> ValidCandidates]
  /\ results = <<>>
  /\ previous = <<>>
  /\ text = <<>>
  /\ entities = None
  /\ nlp_artifacts = None
  /\ outcome = "none"
  /\ op = "none"
  /\ calls = 0
  /\ valid = FALSE
  /\ masker = NoMasker
  /\ recognizer = ConstructedRecognizer
  /\ threads = <<>>
  /\ expansion = NoExpansion
  /\ command = NoCommand

\* results = self._remove_overlapping_results(results): the first call gets
\* the candidate list, every later call the list the call before it returned
RemoveOverlappingCall ==
  /\ op \in {"none", "remove_overlapping"}
  /\ calls < MaxCalls
  /\ LET given == IF calls = 0 THEN candidates ELSE results
     IN IF WalkRaises(SortedResults(given))
        THEN results' = <<>> /\ outcome' = "ZeroDivisionError"
        ELSE results' = RemoveOverlappingResults(given) /\ outcome' = "returned"
  /\ previous' = results
  /\ UNCHANGED candidates
  /\ calls' = calls + 1
  /\ op' = "remove_overlapping"
  /\ UNCHANGED <<text, entities, nlp_artifacts, valid, masker, recognizer, threads, expansion, command>>

NextResolve == RemoveOverlappingCall

SpecResolve == InitResolve /\ [][NextResolve]_vars

----------------------------------------------------------------------------
(* Specification of the recognizers' analyze calls *)

\* the entity lists a caller asks for
RequestChoices ==
  {None, Some(<<>>), Some(<<"ADDRESS">>), Some(<<"PERSON">>)}

\* the artifact that labels the k-th fragment of the text
FragmentEntity(frs, k, label) ==
  [label |-> label,
   start_char |-> Len(Concat(SubSeq(frs, 1, k - 1))),
   end_char |-> Len(Concat(SubSeq(frs, 1, k)))]

\* what the NLP engine may hand over for a text: nothing (None), no entity,
\* one entity over one fragment, or a PERSON entity over the first fragment
\* followed by a LOC entity over the last one
ArtifactChoices(frs) ==
  {None, Some(<<>>)}
    \cup {Some(<<FragmentEntity(frs, k, label)>>) :
            k \in 1..Len(frs), label \in {"LOC", "PERSON"}}
    \cup {Some(<<FragmentEntity(frs, 1, "PERSON"), FragmentEntity(frs, Len(frs), "LOC")>>) :
            n \in {m \in {Len(frs)} : m >= 2}}

\* the recognizers are constructed; no call has been made
Init ==
  /\ text = <<>>
  /\ entities = None
  /\ nlp_artifacts = None
  /\ candidates = <<>>
  /\ results = <<>>
  /\ previous = <<>>
  /\ outcome = "none"
  /\ op = "none"
  /\ calls = 0
  /\ valid = FALSE
  /\ masker = NoMasker
  /\ recognizer = ConstructedRecognizer
  /\ threads = <<>>
  /\ expansion = NoExpansion
  /\ command = NoCommand

\* JapaneseAddressRecognizer.analyze(text, entities, nlp_artifacts)
AddressAnalyzeCall ==
  /\ op = "none"
  /\ \E frs \in FragmentLists :
       LET t == Concat(frs)
       IN \E arts \in ArtifactChoices(frs) : \E ents \in RequestChoices :
            LET r == AddressAnalyze(t, ents, arts)
            IN /\ text' = t
               /\ entities' = ents
               /\ nlp_artifacts' = arts
               /\ outcome' = r.outcome
               /\ candidates' = r.candidates
               /\ results' = r.results
  /\ op' = "address.analyze"
  /\ UNCHANGED <<previous, calls, valid, masker, recognizer, threads, expansion, command>>

\* JapanesePersonRecognizer.analyze(text, entities, nlp_artifacts)
PersonAnalyzeCall ==
  /\ op = "none"
  /\ \E frs \in FragmentLists :
       LET t == Concat(frs)
       IN \E arts \in ArtifactChoices(frs) : \E ents \in RequestChoices :
            LET r == PersonAnalyze(t, ents, arts)
            IN /\ text' = t
               /\ entities' = ents
               /\ nlp_artifacts' = arts
               /\ outcome' = r.outcome
               /\ candidates' = r.candidates
               /\ results' = r.results
  /\ op' = "person.analyze"
  /\ UNCHANGED <<previous, calls, valid, masker, recognizer, threads, expansion, command>>

Next == AddressAnalyzeCall \/ PersonAnalyzeCall

Spec == Init /\ [][Next]_vars

----------------------------------------------------------------------------
(* Specification of the person validity filter on its own *)

\* the characters the filtered texts are made of: 山 田 電 話 あ り な し
\* で す and a space
NameChars ==
  {"yama", "da", "den", "wa", "h_a", "h_ri", "h_na", "h_shi", "h_de", "h_su", "SP"}

\* the names of test_japanese_person_name_pattern_matching that the
\* characters above do not spell: 山田太郎 会社です 電話番号 メールアドレス
NameExamples ==
  { <<"yama", "da", "ta", "rou">>,
    <<"kai", "sha", "h_de", "h_su">>,
    <<"den", "wa", "ban", "gou">>,
    <<"k_me", "k_bar", "k_ru", "k_a", "k_do", "k_re", "k_su">> }

NameInputs == NameExamples \cup UNION {[1..n -> NameChars] : n \in 0..MaxNameLen}

\* JapanesePersonRecognizer._is_valid_person_name(text)
IsValidPersonNameCall ==
  /\ op = "none"
  /\ \E t \in NameInputs :
       /\ text' = t
       /\ valid' = IsValidPersonName(t)
  /\ op' = "is_valid_person_name"
  /\ outcome' = "returned"
  /\ UNCHANGED <<entities, nlp_artifacts, candidates, results, previous, calls,
               masker, recognizer, threads, expansion, command>>

NextValid == IsValidPersonNameCall

SpecValid == Init /\ [][NextValid]_vars

----------------------------------------------------------------------------
(* Properties of the overlap resolution *)

Range(L) == {L[i] : i \in 1..Len(L)}

\* c lies fully inside r
Inside(c, r) == r.start <= c.start /\ c.end <= r.end

\* number of characters c and r share
Shared(c, r) ==
  LET lo == IF c.start >= r.start THEN c.start ELSE r.start
      hi == IF c.end <= r.end THEN c.end ELSE r.end
  IN IF hi > lo THEN hi - lo ELSE 0

\* r covers more than 80% of c's own length
MoreThan80(c, r) == 5 * Shared(c, r) > 4 * (c.end - c.start)

\* r covers exactly 80% of c's own length
Exactly80(c, r) == c.end > c.start /\ 5 * Shared(c, r) = 4 * (c.end - c.start)

Resolved == op = "remove_overlapping" /\ calls = 1

C2_Idempotent ==
  (op = "remove_overlapping" /\ calls >= 2) => results = previous

\* a second application on a list from which the first one dropped a candidate
C2_Witness ==
  /\ op = "remove_overlapping"
  /\ calls = 2
  /\ Len(results) >= 1
  /\ Len(results) < Len(candidates)

C3_WitnessDropped ==
  /\ Resolved
  /\ \E i \in 1..Len(candidates) : \E r \in Range(results) :
        /\ MoreThan80(candidates[i], r)
        /\ ~Inside(candidates[i], r)
        /\ candidates[i] \notin Range(results)

\* a and b have equal score and each would be dropped because of the other
TiedConflict(a, b) ==
  /\ a.score = b.score
  /\ a.start < b.start
  /\ (Inside(b, a) \/ MoreThan80(b, a))
  /\ (Inside(a, b) \/ MoreThan80(a, b))

\* C4: of two equal-score candidates that conflict with each other, and of
\* which the one with the smaller start conflicts with no other accepted
\* result, the one with the smaller start survives and the other is dropped.
C4_SmallerStartWins ==
  Resolved =>
    \A i, j \in 1..Len(candidates) :
      LET a == candidates[i]
          b == candidates[j]
      IN (TiedConflict(a, b)
          /\ \A r \in Range(results) : r \notin {a, b} => ~Inside(a, r) /\ ~MoreThan80(a, r))
         => a \in Range(results) /\ b \notin Range(results)

\* the later-listed candidate has the smaller start and is the survivor
C4_Witness ==
  /\ Resolved
  /\ Len(candidates) = 2
  /\ TiedConflict(candidates[2], candidates[1])
  /\ results = <<candidates[2]>>

----------------------------------------------------------------------------
(* Properties of the recognizers' analyze calls *)

Analyzed == op \in {"address.analyze", "person.analyze"}

\* the entity type of the recognizer that was called
OwnType == IF op = "address.analyze" THEN "ADDRESS" ELSE "PERSON"

\* the entity list names at least one type, and not the recognizer's own
OtherTypesRequested ==
  /\ ~entities.is_none
  /\ entities.items # <<>>
  /\ \A k \in 1..Len(entities.items) : entities.items[k] # OwnType

\* what the called recognizer does for the given arguments
AnalyzeOf(ents, arts) ==
  IF op = "address.analyze" THEN AddressAnalyze(text, ents, arts)
  ELSE PersonAnalyze(text, ents, arts)

\* C5: called without NLP artifacts (None), the person and the address
\* recognizer do not fail and return what they return for artifacts without
\* entities: the results of the pattern and context sources.
C5_NoArtifactsDegradesGracefully ==
  (Analyzed /\ nlp_artifacts.is_none) =>
    /\ outcome = "returned"
    /\ results = AnalyzeOf(entities, Some(<<>>)).results

\* C6: every result the recognizers create records as entity_value the text
\* between its start and its end.
C6_EntityValueIsSpanText ==
  Analyzed =>
    \A k \in 1..Len(candidates) :
      candidates[k].entity_value = Slice(text, candidates[k].start, candidates[k].end)

\* C7: every result the recognizers create or return lies within the text:
\* 0 <= start <= end <= len(text).
C7_SpansWithinText ==
  Analyzed =>
    \A r \in Range(candidates) \cup Range(results) :
      0 <= r.start /\ r.start <= r.end /\ r.end <= Len(text)

\* a returned address result that comes from a LOC entity and whose span was
\* expanded beyond the entity's span
C7_Witness ==
  /\ op = "address.analyze"
  /\ outcome = "returned"
  /\ Len(nlp_artifacts.items) = 1
  /\ \E r \in Range(results) :
       /\ r.source = "spacy_model"
       /\ (r.start < nlp_artifacts.items[1].start_char
           \/ r.end > nlp_artifacts.items[1].end_char)

\* the text is 住所： + an address + a line break + more text
IsScenarioD(t, nl) ==
  /\ MatchAt(t, <<"ju", "sho", "F:">>, 0)
  /\ nl > 7 /\ nl < Len(t) - 1
  /\ At(t, nl) = "LF"
  /\ \A i \in 3..(nl - 1) : At(t, i) \notin Whitespace
  /\ \A i \in 3..(nl - 1) : \A k \in 1..Len(ContextWords) : ~MatchAt(t, ContextWords[k], i)
  /\ \E k \in 1..Len(Prefectures) : MatchAt(t, Prefectures[k], 3)

\* C8: for a text 住所： + address + line break + more text the context
\* source creates exactly one result: score 0.9, from the end of 住所： to
\* the line break.
C8_OneContextCandidate ==
  (op = "address.analyze" /\ ~OtherTypesRequested) =>
    \A nl \in 0..(Len(text) - 1) :
      IsScenarioD(text, nl) =>
        LET made == SelectSeq(candidates, LAMBDA r : r.source = "context_pattern")
        IN /\ Len(made) = 1
           /\ made[1].score = 90
           /\ made[1].start = 3
           /\ made[1].end = nl

\* C9: a recognizer asked for other entity types only returns the empty
\* list without failing, whatever the text and the artifacts; asked with an
\* empty list or None it does what it does when asked for its own type.
C9_CapabilityFilter ==
  Analyzed =>
    /\ OtherTypesRequested => (outcome = "returned" /\ results = <<>>)
    /\ (entities.is_none \/ entities.items = <<>>) =>
         LET own == AnalyzeOf(Some(<<OwnType>>), nlp_artifacts)
         IN outcome = own.outcome /\ results = own.results

\* the person recognizer, asked for ADDRESS only and given no artifacts,
\* returns nothing for a text in which it finds a name when asked for PERSON
C9_Witness ==
  /\ op = "person.analyze"
  /\ OtherTypesRequested
  /\ nlp_artifacts.is_none
  /\ outcome = "returned"
  /\ results = <<>>
  /\ PersonPatternResults(text) # <<>>

\* the address recognizer, asked with None, returns a non-empty list
C9_WitnessDefault ==
  /\ op = "address.analyze"
  /\ entities.is_none
  /\ outcome = "returned"
  /\ results # <<>>

----------------------------------------------------------------------------
(* Properties of the person validity filter *)

\* w occurs in t
Occurs(w, t) ==
  \E i \in 1..Len(t) : i + Len(w) - 1 <= Len(t) /\ \A j \in 1..Len(w) : t[i + j - 1] = w[j]

\* t without leading and trailing white space has at least n characters
TrimmedAtLeast(t, n) ==
  \E i, j \in 1..Len(t) :
    j - i + 1 >= n /\ t[i] \notin Whitespace /\ t[j] \notin Whitespace

\* C10: _is_valid_person_name is true exactly for the texts that contain no
\* exclusion word and have at least 3 characters after trimming; 電話番号,
\* 会社です, あり and なし are rejected and 山田太郎 is accepted.
C10_ValidityFilter ==
  op = "is_valid_person_name" =>
    /\ valid <=> ((\A k \in 1..Len(Exclusions) : ~Occurs(Exclusions[k], text))
                  /\ TrimmedAtLeast(text, 3))
    /\ text \in { <<"den", "wa", "ban", "gou">>, <<"kai", "sha", "h_de", "h_su">>,
                  <<"h_a", "h_ri">>, <<"h_na", "h_shi">> } => ~valid
    /\ text = <<"yama", "da", "ta", "rou">> => valid

\* a text of more than 3 characters, free of exclusion words, rejected for
\* its trimmed length
C10_Witness ==
  /\ op = "is_valid_person_name"
  /\ Len(text) > 3
  /\ \A k \in 1..Len(Exclusions) : ~Occurs(Exclusions[k], text)
  /\ ~TrimmedAtLeast(text, 3)
  /\ ~valid

----------------------------------------------------------------------------
(* JapanesePersonRecognizer.analyze: the two sources *)

\* the person recognizer was asked for its type, had artifacts and returned
PersonAnalyzed ==
  /\ op = "person.analyze"
  /\ outcome = "returned"
  /\ CheckEntitySupported(entities, "PERSON")

\* the artifacts labelled PERSON whose text passes the validity filter
ValidPersonArtifacts ==
  SelectSeq(nlp_artifacts.items, LAMBDA e :
    e.label = "PERSON" /\ IsValidPersonName(Slice(text, e.start_char, e.end_char)))

\* the name-shape matches that pass the filter and are 3 to 8 characters long
ValidNameMatches ==
  SelectSeq(NameMatchesOf(text), LAMBDA m :
    /\ IsValidPersonName(Slice(text, m[1], m[2]))
    /\ m[2] - m[1] >= 3
    /\ m[2] - m[1] <= 8)

\* C11: the person recognizer returns, without deduplication, one result of
\* score 0.85 for every valid PERSON artifact in artifact order, followed by
\* one result for every valid name-shape match of 3 to 8 characters; other
\* labels give no result.
C11_UnionWithoutDeduplication ==
  PersonAnalyzed =>
    LET persons == ValidPersonArtifacts
        matches == ValidNameMatches
    IN /\ Len(results) = Len(persons) + Len(matches)
       /\ \A k \in 1..Len(persons) :
            /\ results[k].source = "spacy_model"
            /\ results[k].score = 85
            /\ results[k].start = persons[k].start_char
            /\ results[k].end = persons[k].end_char
       /\ \A k \in 1..Len(matches) :
            LET r == results[Len(persons) + k]
            IN /\ r.source = "pattern_matching"
               /\ r.start = matches[k][1]
               /\ r.end = matches[k][2]

\* both sources gave the same span, next to an artifact of another label
C11_Witness ==
  /\ PersonAnalyzed
  /\ \E i, j \in 1..Len(results) :
       /\ i < j
       /\ results[i].source = "spacy_model"
       /\ results[j].source = "pattern_matching"
       /\ results[i].start = results[j].start
       /\ results[i].end = results[j].end
  /\ \E k \in 1..Len(nlp_artifacts.items) : nlp_artifacts.items[k].label = "LOC"

\* an honorific starts at position e of the text
FollowedByHonorific(e) ==
  \E k \in 1..Len(Honorifics) : MatchAt(text, Honorifics[k], e)

\* text[s:e] is 2 to 4 Han characters, white space, 1 to 3 Han characters,
\* and no Han or kana character comes before it
NameShapeSpan(s, e) ==
  /\ (s > 0 => At(text, s - 1) \notin Kana \cup Han)
  /\ \E a \in 2..4 : \E b \in 1..3 :
       /\ s + a + b <= e
       /\ AllIn(text, s, s + a, Han)
       /\ AllIn(text, s + a, e - b, Whitespace)
       /\ AllIn(text, e - b, e, Han)

\* C12: a valid name-shape string that an honorific follows is emitted by the
\* pattern source with score 0.85; pattern results that no honorific follows
\* have score 0.75.
C12_HonorificBoost ==
  PersonAnalyzed =>
    /\ \A s \in 0..Len(text) : \A e \in s..Len(text) :
         ( /\ NameShapeSpan(s, e)
           /\ e - s >= 3 /\ e - s <= 8
           /\ IsValidPersonName(Slice(text, s, e))
           /\ FollowedByHonorific(e) )
         => \E k \in 1..Len(results) :
              /\ results[k].source = "pattern_matching"
              /\ results[k].start = s
              /\ results[k].end = e
              /\ results[k].score = 85
    /\ \A k \in 1..Len(results) :
         (results[k].source = "pattern_matching" /\ ~FollowedByHonorific(results[k].end))
         => results[k].score = 75

----------------------------------------------------------------------------
(* PIIMasker (masking.py), MaskingConfig (config.py), the mask command     *)
(* (cli.py).  AnalyzerEngine and AnonymizerEngine are collaborators whose  *)
(* code is outside the repository: what the analyzer finds is an input,    *)
(* and so are the anonymizer's own default operator and whether it raises  *)
(* when it is handed an operator name it does not know.                    *)

\* longest list of results the analyzer engine hands back
MaxFound == 2

\* operator names the anonymizer knows, and the name of test_cli_error_handling
KnownOperators == {"replace", "mask", "hash"}

OperatorNames == KnownOperators \cup {"invalid"}

\* entity types of the analyzer's results
FoundTypes == {"PERSON", "PHONE_NUMBER"}

\* keys of the operators mapping
OperatorKeys == {"PERSON", "INVALID_TYPE"}

\* params values: an empty dict and a non-empty one
ParamValues == {"{}", "custom"}

\* a value of the operators mapping: a string, or a dict with the optional
\* keys "operator" and "params"
OperatorInfos ==
  {[is_dict |-> FALSE, has_operator |-> TRUE, operator |-> n,
    has_params |-> FALSE, params |-> "{}"] : n \in OperatorNames}
  \cup {[is_dict |-> TRUE, has_operator |-> TRUE, operator |-> n,
         has_params |-> TRUE, params |-> q] : n \in OperatorNames, q \in ParamValues}
  \cup {[is_dict |-> TRUE, has_operator |-> TRUE, operator |-> n,
         has_params |-> FALSE, params |-> "{}"] : n \in OperatorNames}
  \cup {[is_dict |-> TRUE, has_operator |-> FALSE, operator |-> "replace",
         has_params |-> b, params |-> "{}"] : b \in BOOLEAN}

\* the operators arguments of anonymize_text
OperatorMappings ==
  {NoOperators}
    \cup {SomeOperators(m) : m \in UNION {[D -> OperatorInfos] : D \in SUBSET OperatorKeys}}

\* the texts handed to the masker: empty, テスト, 山田太郎
MaskTexts == {<<>>, <<"k_te", "k_su", "k_to">>, <<"yama", "da", "ta", "rou">>}

\* what self.analyzer.analyze may return for a text: nothing for the empty
\* text, else up to MaxFound results
FoundLists(t) ==
  IF t = <<>> THEN {<<>>}
  ELSE UNION {[1..n -> {[entity_type |-> T] : T \in FoundTypes}] : n \in 0..MaxFound}

\* result.to_dict()
ToDict(r) == [entity_type |-> r.entity_type]

\* OperatorConfig(...) of lines 112-122
OperatorConfigOf(info) ==
  IF info.is_dict
  THEN [operator_name |-> IF info.has_operator THEN info.operator ELSE "replace",
        params |-> IF info.has_params THEN info.params ELSE "{}"]
  ELSE [operator_name |-> info.operator, params |-> "None"]

\* operator_configs as built by lines 109-122
OperatorConfigs(operators) ==
  IF operators.is_none \/ DOMAIN operators.map = {} THEN <<>>
  ELSE [T \in DOMAIN operators.map |-> OperatorConfigOf(operators.map[T])]

\* the operator the anonymizer uses for an entity type: the one the mapping
\* it was handed names for the type, else its own default
AppliedOperator(T, operator_configs, anonymizer_default) ==
  IF T \in DOMAIN operator_configs THEN operator_configs[T]
  ELSE [operator_name |-> anonymizer_default, params |-> "None"]

\* the anonymizer may raise only when it was handed an operator name it
\* does not know
AnonymizerOutcomes(operator_configs) ==
  IF \E T \in DOMAIN operator_configs : operator_configs[T].operator_name \notin KnownOperators
  THEN {"raised", "returned"}
  ELSE {"returned"}

\* mutant: when the analysis found nothing an empty text is returned
AnonymizeText_EmptyWhenNothingFound(t, found, operators, anonymizer_default, anonymizer_outcome) ==
  IF found = <<>>
  THEN [outcome |-> "returned",
        operator_configs |-> <<>>,
        anonymizer_called |-> FALSE,
        applied |-> <<>>,
        output |-> [kind |-> "input", text |-> <<>>]]
  ELSE LET operator_configs == OperatorConfigs(operators)
       IN [outcome |-> anonymizer_outcome,
           operator_configs |-> operator_configs,
           anonymizer_called |-> TRUE,
           applied |-> IF anonymizer_outcome = "raised" THEN <<>>
                       ELSE [k \in 1..Len(found) |->
                               AppliedOperator(found[k].entity_type, operator_configs,
                                               anonymizer_default)],
           output |-> IF anonymizer_outcome = "raised" THEN [kind |-> "none", text |-> <<>>]
                      ELSE [kind |-> "anonymized", text |-> t]]

\* PIIMasker.anonymize_text after the analysis returned found
AnonymizeText(t, found, operators, anonymizer_default, anonymizer_outcome) ==
  IF found = <<>>
  THEN [outcome |-> "returned",
        operator_configs |-> <<>>,
        anonymizer_called |-> FALSE,
        applied |-> <<>>,
        output |-> [kind |-> "input", text |-> t]]
  ELSE LET operator_configs == OperatorConfigs(operators)
       IN [outcome |-> anonymizer_outcome,
           operator_configs |-> operator_configs,
           anonymizer_called |-> TRUE,
           applied |-> IF anonymizer_outcome = "raised" THEN <<>>
                       ELSE [k \in 1..Len(found) |->
                               AppliedOperator(found[k].entity_type, operator_configs,
                                               anonymizer_default)],
           output |-> IF anonymizer_outcome = "raised" THEN [kind |-> "none", text |-> <<>>]
                      ELSE [kind |-> "anonymized", text |-> t]]

\* the outcomes the anonymizer may have in a call of anonymize_text
CallOutcomes(found, operators) ==
  IF found = <<>> THEN {"returned"} ELSE AnonymizerOutcomes(OperatorConfigs(operators))

\* MaskingConfig values: operators per entity type and a default operator
ConfigOperators == {[operator |-> n, params |-> q] : n \in OperatorNames, q \in ParamValues}

MaskingConfigs ==
  {[operators |-> m, default_operator |-> [operator |-> n, params |-> "{}"]] :
     m \in UNION {[D -> ConfigOperators] : D \in SUBSET OperatorKeys},
     n \in OperatorNames}

\* the operators argument the mask command builds (cli.py lines 94-99)
MaskOperators(config) ==
  IF DOMAIN config.operators = {} THEN NoOperators
  ELSE SomeOperators([T \in DOMAIN config.operators |->
         [is_dict |-> TRUE, has_operator |-> TRUE,
          operator |-> config.operators[T].operator,
          has_params |-> TRUE, params |-> config.operators[T].params]])

\* the entity lists handed to the analyzer
MaskRequests == {None, Some(<<"PERSON">>)}

\* PIIMasker(): the engines are created
ConstructMasker ==
  /\ op = "none"
  /\ ~masker.constructed
  /\ \E d \in KnownOperators :
       masker' = [masker EXCEPT !.constructed = TRUE, !.anonymizer_default = d]
  /\ op' = "PIIMasker"
  /\ UNCHANGED <<text, entities, nlp_artifacts, candidates, results, previous, outcome,
                 calls, valid, recognizer, threads, expansion, command>>

\* PIIMasker.detect_pii(text, entity_types)
DetectPiiCall ==
  /\ op = "PIIMasker"
  /\ \E t \in MaskTexts : \E ents \in MaskRequests : \E found \in FoundLists(t) :
       /\ text' = t
       /\ entities' = ents
       /\ results' = [k \in 1..Len(found) |-> ToDict(found[k])]
       /\ masker' = [masker EXCEPT !.analysis_results = found]
  /\ outcome' = "returned"
  /\ op' = "detect_pii"
  /\ UNCHANGED <<nlp_artifacts, candidates, previous, calls, valid, recognizer, threads,
                 expansion, command>>

\* PIIMasker.anonymize_text(text, entity_types, operators)
AnonymizeTextCall ==
  /\ op = "PIIMasker"
  /\ \E t \in MaskTexts : \E ents \in MaskRequests : \E found \in FoundLists(t) :
     \E operators \in OperatorMappings : \E o \in CallOutcomes(found, operators) :
       LET r == AnonymizeText(t, found, operators, masker.anonymizer_default, o)
       IN /\ text' = t
          /\ entities' = ents
          /\ outcome' = r.outcome
          /\ masker' = [masker EXCEPT !.operators = operators,
                                      !.analysis_results = found,
                                      !.operator_configs = r.operator_configs,
                                      !.anonymizer_called = r.anonymizer_called,
                                      !.applied = r.applied,
                                      !.output = r.output]
  /\ op' = "anonymize_text"
  /\ UNCHANGED <<nlp_artifacts, candidates, results, previous, calls, valid, recognizer,
                 threads, expansion, command>>

\* the mask command with a configuration: anonymize_text is called with the
\* configured operators; an exception ends the command with exit code 1
MaskCommand ==
  /\ op = "PIIMasker"
  /\ \E t \in MaskTexts : \E config \in MaskingConfigs : \E found \in FoundLists(t) :
     \E o \in CallOutcomes(found, MaskOperators(config)) :
       LET operators == MaskOperators(config)
           r == AnonymizeText(t, found, operators, masker.anonymizer_default, o)
       IN /\ text' = t
          /\ outcome' = IF r.outcome = "raised" THEN "Exit(1)" ELSE "returned"
          /\ masker' = [masker EXCEPT !.config = config,
                                      !.operators = operators,
                                      !.analysis_results = found,
                                      !.operator_configs = r.operator_configs,
                                      !.anonymizer_called = r.anonymizer_called,
                                      !.applied = r.applied,
                                      !.output = r.output]
  /\ op' = "mask"
  /\ UNCHANGED <<entities, nlp_artifacts, candidates, results, previous, calls, valid,
                 recognizer, threads, expansion, command>>

NextMask == ConstructMasker \/ DetectPiiCall \/ AnonymizeTextCall \/ MaskCommand

SpecMask == Init /\ [][NextMask]_vars

----------------------------------------------------------------------------
(* Claims about PIIMasker *)

\* the operators argument names an operator the anonymizer does not know
NamesInvalidOperator ==
  /\ ~masker.operators.is_none
  /\ \E T \in DOMAIN masker.operators.map :
       OperatorConfigOf(masker.operators.map[T]).operator_name \notin KnownOperators

\* C14: anonymize_text raises whenever the operators mapping names an invalid
\* operator, also when the text holds nothing the analysis detects.
C14_InvalidOperatorRaises ==
  (op = "anonymize_text" /\ NamesInvalidOperator) => outcome = "raised"

C15_WitnessDetect ==
  op = "detect_pii" /\ text = <<>> /\ results = <<>>

\* C16: masking with a MaskingConfig, an entity type without an entry in
\* config.operators is anonymized with config.default_operator.
C16_DefaultOperatorApplied ==
  (op = "mask" /\ outcome = "returned") =>
    \A k \in 1..Len(masker.applied) :
      masker.analysis_results[k].entity_type \notin DOMAIN masker.config.operators
      => masker.applied[k].operator_name = masker.config.default_operator.operator

----------------------------------------------------------------------------
(* Calls of analyze on shared recognizers, interleaved.  Each call runs    *)
(* the statements of analyze in order; between two statements of one call  *)
(* any statement of another call may run.  self is the shared recognizer;  *)
(* results and context_positions are local variables of the call.          *)

\* number of calls in flight
MaxThreads == 2

\* the calls made: recognizer, text and artifacts
\*   住所：東京都千代田区1-1-1 with a LOC entity over 東京都千代田区
\*   東京都千代田区 1丁目 with no entity
\*   山田太郎 with a PERSON entity over it
SharedInputs ==
  { [kind |-> "address",
     text |-> <<"ju", "sho", "F:", "tou", "kyo", "to", "sen", "yo", "da", "ku",
                "1", "-", "1", "-", "1">>,
     arts |-> <<[label |-> "LOC", start_char |-> 3, end_char |-> 10]>>],
    [kind |-> "address",
     text |-> <<"tou", "kyo", "to", "sen", "yo", "da", "ku", "SP", "1", "chou", "me">>,
     arts |-> <<>>],
    [kind |-> "person",
     text |-> <<"yama", "da", "ta", "rou">>,
     arts |-> <<[label |-> "PERSON", start_char |-> 0, end_char |-> 4]>>],
    [kind |-> "person",
     text |-> <<"tou", "kyo", "to", "sen", "yo", "da", "ku", "SP", "1", "chou", "me">>,
     arts |-> <<>>] }

\* a call that has not started
IdleCall ==
  [pc |-> "idle", kind |-> "none", text |-> <<>>, arts |-> <<>>,
   context_positions |-> <<>>, results |-> <<>>, returned |-> <<>>]

\* mutant: the result list is kept on the recognizer, shared by all calls
ResultsOwner_OnRecognizer(th) == 1

\* the call whose frame holds the list that call th names results
ResultsOwner(th) == th

\* the recognizers are constructed and no call has started
InitShared ==
  /\ text = <<>>
  /\ entities = None
  /\ nlp_artifacts = None
  /\ candidates = <<>>
  /\ results = <<>>
  /\ previous = <<>>
  /\ outcome = "none"
  /\ op = "none"
  /\ calls = 0
  /\ valid = FALSE
  /\ masker = NoMasker
  /\ recognizer = ConstructedRecognizer
  /\ threads = [th \in 1..MaxThreads |-> IdleCall]
  /\ expansion = NoExpansion
  /\ command = NoCommand

\* what every statement of analyze leaves alone
SharedFrame ==
  UNCHANGED <<text, entities, nlp_artifacts, candidates, results, previous, outcome, op,
              calls, valid, masker, recognizer, expansion, command>>

\* analyze is entered: results = []
BeginAnalyze ==
  /\ \E th \in 1..MaxThreads : \E input \in SharedInputs :
       /\ threads[th].pc = "idle"
       /\ threads' = [threads EXCEPT ![th].pc = IF input.kind = "address" THEN "positions"
                                               ELSE "entities",
                                     ![th].kind = input.kind,
                                     ![th].text = input.text,
                                     ![th].arts = input.arts,
                                     ![ResultsOwner(th)].results = <<>>]
  /\ SharedFrame

\* address: the loop that fills context_positions
PositionsStep ==
  /\ \E th \in 1..MaxThreads :
       /\ threads[th].pc = "positions"
       /\ threads' = [threads EXCEPT ![th].pc = "context",
                                     ![th].context_positions = ContextPositions(threads[th].text)]
  /\ SharedFrame

\* address: the loop over context_positions
ContextStep ==
  /\ \E th \in 1..MaxThreads :
       /\ threads[th].pc = "context"
       /\ threads' = [threads EXCEPT ![th].pc = "patterns",
                                     ![ResultsOwner(th)].results =
                                        threads[ResultsOwner(th)].results
                                          \o ContextResults(threads[th].text,
                                                            threads[th].context_positions)]
  /\ SharedFrame

\* address: the loop over self.address_patterns
PatternStep ==
  /\ \E th \in 1..MaxThreads :
       /\ threads[th].pc = "patterns"
       /\ threads' = [threads EXCEPT ![th].pc = "locations",
                                     ![ResultsOwner(th)].results =
                                        threads[ResultsOwner(th)].results
                                          \o PatternResults(threads[th].text,
                                                            threads[th].context_positions)]
  /\ SharedFrame

\* address: the loop over nlp_artifacts.entities
LocStep ==
  /\ \E th \in 1..MaxThreads :
       /\ threads[th].pc = "locations"
       /\ threads' = [threads EXCEPT ![th].pc = "resolve",
                                     ![ResultsOwner(th)].results =
                                        threads[ResultsOwner(th)].results
                                          \o LocResults(threads[th].text, threads[th].arts)]
  /\ SharedFrame

\* address: results = self._remove_overlapping_results(results); return results
ResolveStep ==
  /\ \E th \in 1..MaxThreads :
       /\ threads[th].pc = "resolve"
       /\ LET kept == RemoveOverlappingResults(threads[ResultsOwner(th)].results)
          IN threads' = [threads EXCEPT ![th].pc = "done",
                                        ![ResultsOwner(th)].results = kept,
                                        ![th].returned = kept]
  /\ SharedFrame

\* person: the loop over nlp_artifacts.entities
EntitiesStep ==
  /\ \E th \in 1..MaxThreads :
       /\ threads[th].pc = "entities"
       /\ threads' = [threads EXCEPT ![th].pc = "names",
                                     ![ResultsOwner(th)].results =
                                        threads[ResultsOwner(th)].results
                                          \o PersonNlpResults(threads[th].text,
                                                              threads[th].arts)]
  /\ SharedFrame

\* person: the loop over the matches of common_name_pattern; return results
NamesStep ==
  /\ \E th \in 1..MaxThreads :
       /\ threads[th].pc = "names"
       /\ LET built == threads[ResultsOwner(th)].results
                         \o PersonPatternResults(threads[th].text)
          IN threads' = [threads EXCEPT ![th].pc = "done",
                                        ![ResultsOwner(th)].results = built,
                                        ![th].returned = built]
  /\ SharedFrame

NextShared ==
  \/ BeginAnalyze
  \/ PositionsStep
  \/ ContextStep
  \/ PatternStep
  \/ LocStep
  \/ ResolveStep
  \/ EntitiesStep
  \/ NamesStep

SpecShared == InitShared /\ [][NextShared]_vars

\* what the call returns when it runs alone
AloneResult(kind, t, arts) ==
  IF kind = "address" THEN AddressAnalyze(t, Some(<<"ADDRESS">>), Some(arts)).results
  ELSE PersonAnalyze(t, Some(<<"PERSON">>), Some(arts)).results

\* C17: a step of an analyze call leaves the recognizer's fields and the text
\* and artifacts of every call in flight unchanged, and every call, however
\* the calls interleave, returns what it returns when run alone.
C17_NoSharedMutableState ==
  [][ /\ recognizer' = recognizer
      /\ \A th \in 1..MaxThreads :
           /\ threads[th].pc # "idle" =>
                /\ threads'[th].text = threads[th].text
                /\ threads'[th].arts = threads[th].arts
           /\ threads'[th].pc = "done" =>
                threads'[th].returned =
                  AloneResult(threads'[th].kind, threads'[th].text, threads'[th].arts)
    ]_vars

\* an address call returned results after another call started and before
\* that call finished
C17_Witness ==
  \E a, b \in 1..MaxThreads :
    /\ a # b
    /\ threads[a].pc = "done"
    /\ threads[a].kind = "address"
    /\ threads[a].returned # <<>>
    /\ threads[b].pc \notin {"idle", "done"}
    /\ threads[b].results # <<>>

----------------------------------------------------------------------------
(* The acceptance rule of the overlap resolution *)

\* an accepted result a makes the candidate c a conflict: same span, c inside
\* a, or a covers more than 80% of c's own length
Conflicts(c, a) ==
  \/ (c.start = a.start /\ c.end = a.end)
  \/ Inside(c, a)
  \/ MoreThan80(c, a)

\* the elements of S that f marks, in order
RECURSIVE Marked(_, _, _)
Marked(S, f, k) ==
  IF k > Len(S) THEN <<>>
  ELSE (IF f[k] THEN <<S[k]>> ELSE <<>>) \o Marked(S, f, k + 1)

----------------------------------------------------------------------------
(* Specification of the address patterns and of the span expansion on      *)
(* texts with postal codes and several prefecture names                    *)

\* the pieces of these texts: 〒123-4567, 千葉県, 東京都, 千代田区, a space, 1丁目
PatternFragments ==
  { <<"POSTMARK", "1", "2", "3", "-", "4", "5", "6", "7">>,
    <<"sen", "ba", "ken">>,
    <<"tou", "kyo", "to">>,
    <<"sen", "yo", "da", "ku">>,
    <<"SP">>,
    <<"1", "chou", "me">> }

PatternTexts == {Concat(frs) : frs \in UNION {[1..n -> PatternFragments] : n \in 0..MaxFrags}}

\* the recognizer is constructed and a text is at hand
InitPattern ==
  /\ text \in PatternTexts
  /\ entities = None
  /\ nlp_artifacts = None
  /\ candidates = <<>>
  /\ results = <<>>
  /\ previous = <<>>
  /\ outcome = "none"
  /\ op = "none"
  /\ calls = 0
  /\ valid = FALSE
  /\ masker = NoMasker
  /\ recognizer = ConstructedRecognizer
  /\ threads = <<>>
  /\ expansion = NoExpansion
  /\ command = NoCommand

\* JapaneseAddressRecognizer.analyze(text, ["ADDRESS"], artifacts without entities)
AnalyzeTextCall ==
  /\ op = "none"
  /\ LET r == AddressAnalyze(text, Some(<<"ADDRESS">>), Some(<<>>))
     IN /\ entities' = Some(<<"ADDRESS">>)
        /\ nlp_artifacts' = Some(<<>>)
        /\ outcome' = r.outcome
        /\ candidates' = r.candidates
        /\ results' = r.results
  /\ op' = "address.analyze"
  /\ UNCHANGED <<text, previous, calls, valid, masker, recognizer, threads, expansion, command>>

\* JapaneseAddressRecognizer._expand_address_span(text, start, end)
ExpandAddressSpanCall ==
  /\ op = "none"
  /\ \E start \in 0..Len(text) : \E end \in start..Len(text) :
       LET new == ExpandAddressSpan(text, start, end)
       IN expansion' = [called |-> TRUE, start |-> start, end |-> end,
                        new_start |-> new[1], new_end |-> new[2]]
  /\ op' = "expand_address_span"
  /\ outcome' = "returned"
  /\ UNCHANGED <<text, entities, nlp_artifacts, candidates, results, previous, calls, valid,
                 masker, recognizer, threads, command>>

NextPattern == AnalyzeTextCall \/ ExpandAddressSpanCall

SpecPattern == InitPattern /\ [][NextPattern]_vars

\* the numeric-shape exclusions: bare postal code, date, 11-12 digit number,
\* phone number
NumericShape(t) == IsBarePostalCode(t) \/ IsDate(t) \/ IsLongNumber(t) \/ IsPhoneNumber(t)

\* C19: every match of one of the three address pattern families that no
\* numeric-shape exclusion rejects is emitted as an ADDRESS candidate of the
\* pattern source; a postal-code marker match such as 〒123-4567 is.
C19_EveryPatternMatchEmitted ==
  (op = "address.analyze" /\ outcome = "returned") =>
    \A p \in 1..AddressPatternCount :
      LET matches == PatternMatches(text, p)
      IN \A k \in 1..Len(matches) :
           ~NumericShape(Slice(text, matches[k][1], matches[k][2]))
           => \E c \in 1..Len(candidates) :
                /\ candidates[c].entity_type = "ADDRESS"
                /\ candidates[c].source = "pattern_matching"
                /\ <<candidates[c].start, candidates[c].end>>
                     = ExpandAddressSpan(text, matches[k][1], matches[k][2])

\* the starts of the prefecture names that lie before start and begin fewer
\* than 30 characters before it
PrefectureStartsBefore(start) ==
  {i \in 0..(start - 1) :
     /\ start - i < 30
     /\ \E k \in 1..Len(Prefectures) :
          MatchAt(text, Prefectures[k], i) /\ i + Len(Prefectures[k]) <= start}

\* C20: the backward expansion moves the start to the nearest prefecture name
\* that begins fewer than 30 characters before it, and leaves the start
\* unchanged when there is none.
C20_NearestPrefecture ==
  (op = "expand_address_span" /\ expansion.called) =>
    expansion.new_start =
      IF PrefectureStartsBefore(expansion.start) = {} THEN expansion.start
      ELSE Max(PrefectureStartsBefore(expansion.start))

----------------------------------------------------------------------------
(* Specification of analyze and of the span expansion on texts in which a  *)
(* run of other characters separates two parts, so that the distances the  *)
(* code compares with 4, 20 and 30 are reached                             *)

\* longest run of separating characters
MaxGap == 30

\* a run of n ASCII letters
Filler(n) == [k \in 1..n |-> "x"]

\* what the text begins with: nothing, 住所, 東京都, 1丁目
GapHeads ==
  {<<>>, <<"ju", "sho">>, <<"tou", "kyo", "to">>, <<"1", "chou", "me">>}

\* what the text ends with: nothing, 1丁目, 1-1, 、1, 1、1, "1丁目\n1",
\* 1丁目住所, 1丁目 and a space
GapTails ==
  {<<>>, <<"1", "chou", "me">>, <<"1", "-", "1">>, <<"TOUTEN", "1">>,
   <<"1", "TOUTEN", "1">>, <<"1", "chou", "me", "LF", "1">>,
   <<"1", "chou", "me", "ju", "sho">>, <<"1", "chou", "me", "SP">>}

GapTexts ==
  {head \o Filler(n) \o tail : head \in GapHeads, n \in 0..MaxGap, tail \in GapTails}

\* the recognizer is constructed and a text is at hand
InitGap ==
  /\ text \in GapTexts
  /\ entities = None
  /\ nlp_artifacts = None
  /\ candidates = <<>>
  /\ results = <<>>
  /\ previous = <<>>
  /\ outcome = "none"
  /\ op = "none"
  /\ calls = 0
  /\ valid = FALSE
  /\ masker = NoMasker
  /\ recognizer = ConstructedRecognizer
  /\ threads = <<>>
  /\ expansion = NoExpansion
  /\ command = NoCommand

SpecGap == InitGap /\ [][NextPattern]_vars

\* _expand_address_span was called and has returned
Expanded == op = "expand_address_span" /\ expansion.called

\* C21: the characters the forward expansion adds beyond the original end
\* contain no delimiter (。、.，,；;: or a line break).
C21_ForwardStopsAtDelimiter ==
  Expanded =>
    \A i \in expansion.end..(expansion.new_end - 1) : At(text, i) \notin ExpandDelimiters


\* analyze was called on the text and has returned
AddressAnalyzed == op = "address.analyze" /\ outcome = "returned"

\* the ends of the occurrences of the trigger phrases in the text
TriggerEnds ==
  {i + Len(ContextWords[k]) : i \in 0..Len(text), k \in 1..Len(ContextWords)}
    \cap {e \in 0..Len(text) :
            \E k \in 1..Len(ContextWords) : MatchAt(text, ContextWords[k], e - Len(ContextWords[k]))}

\* the matches of the three address patterns, in pattern order, that the
\* numeric-shape filter lets through
RECURSIVE ValidMatchesFrom(_)
ValidMatchesFrom(p) ==
  IF p > AddressPatternCount THEN <<>>
  ELSE SelectSeq(PatternMatches(text, p), LAMBDA m : IsValidAddress(Slice(text, m[1], m[2])))
         \o ValidMatchesFrom(p + 1)

\* the candidates of the pattern source, in the order they were created
PatternCandidates == SelectSeq(candidates, LAMBDA c : c.source = "pattern_matching")

Distance(a, b) == IF a < b THEN b - a ELSE a - b

StopAfter(e) ==
  LET stops == {j \in e..(Len(text) - 1) :
                  \/ At(text, j) \in {"LF", "CR"}
                  \/ \E k \in 1..Len(ContextWords) : MatchAt(text, ContextWords[k], j)}
  IN IF stops = {} THEN Len(text) ELSE Min(stops)

\* the trimmed text between a trigger phrase that ends at e and that stop
CandidateAfter(e) == Strip(Slice(text, e, StopAfter(e)))

\* the candidates of the context source
ContextCandidates == SelectSeq(candidates, LAMBDA c : c.source = "context_pattern")

\* C23: for each occurrence of a trigger phrase the candidate is the trimmed
\* text from its end to the next line break or trigger phrase; it is emitted,
\* with score 0.9, exactly when it is longer than 4 characters and has
\* address features, and an emitted candidate holds no line break and no
\* trigger phrase.
C23_ContextAnchoredExtraction ==
  AddressAnalyzed =>
    LET emitting == {e \in TriggerEnds :
                       Len(CandidateAfter(e)) > 4 /\ HasAddressFeatures(CandidateAfter(e))}
        found == ContextCandidates
    IN /\ Len(found) = Cardinality(emitting)
       /\ {<<found[k].start, found[k].entity_value>> : k \in 1..Len(found)}
            = {<<e, CandidateAfter(e)>> : e \in emitting}
       /\ \A k \in 1..Len(found) :
            /\ found[k].score = 90
            /\ \A j \in 1..Len(found[k].entity_value) :
                 found[k].entity_value[j] \notin {"LF", "CR"}
            /\ \A w \in 1..Len(ContextWords) :
                 ~Contains(found[k].entity_value, ContextWords[w])

\* a trigger phrase followed by a candidate of exactly 4 characters that has
\* address features: nothing is emitted for it
C23_Witness ==
  /\ AddressAnalyzed
  /\ \E e \in TriggerEnds :
       /\ Len(CandidateAfter(e)) = 4
       /\ HasAddressFeatures(CandidateAfter(e))
       /\ \A k \in 1..Len(ContextCandidates) : ContextCandidates[k].start # e


----------------------------------------------------------------------------
(* Specification of analyze on short texts with one or two entities of any *)
(* span and label handed over by the NLP engine                            *)

\* 東京都1丁目, 東京都区1, 1、1丁目, 山田太郎
EntityTexts ==
  { <<"tou", "kyo", "to", "1", "chou", "me">>,
    <<"tou", "kyo", "to", "ku", "1">>,
    <<"1", "TOUTEN", "1", "chou", "me">>,
    <<"yama", "da", "ta", "rou">> }

\* the entities the NLP engine may report for a text: any span, labelled
\* LOC, PERSON or ORG
EntitiesOf(t) ==
  {e \in [label : {"LOC", "PERSON", "ORG"}, start_char : 0..Len(t), end_char : 0..Len(t)] :
     e.start_char <= e.end_char}

InitEntities ==
  /\ text \in EntityTexts
  /\ entities = None
  /\ nlp_artifacts = None
  /\ candidates = <<>>
  /\ results = <<>>
  /\ previous = <<>>
  /\ outcome = "none"
  /\ op = "none"
  /\ calls = 0
  /\ valid = FALSE
  /\ masker = NoMasker
  /\ recognizer = ConstructedRecognizer
  /\ threads = <<>>
  /\ expansion = NoExpansion
  /\ command = NoCommand

\* JapaneseAddressRecognizer.analyze(text, ["ADDRESS"], artifacts with one or
\* two entities)
AnalyzeEntitiesCall ==
  /\ op = "none"
  /\ \E n \in 1..2 : \E ents \in [1..n -> EntitiesOf(text)] :
       LET r == AddressAnalyze(text, Some(<<"ADDRESS">>), Some(ents))
       IN /\ entities' = Some(<<"ADDRESS">>)
          /\ nlp_artifacts' = Some(ents)
          /\ outcome' = r.outcome
          /\ candidates' = r.candidates
          /\ results' = r.results
  /\ op' = "address.analyze"
  /\ UNCHANGED <<text, previous, calls, valid, masker, recognizer, threads, expansion, command>>

SpecEntities == InitEntities /\ [][AnalyzeEntitiesCall]_vars

\* the artifacts labelled LOC whose raw text has address features
LocArtifacts ==
  SelectSeq(nlp_artifacts.items, LAMBDA e :
    e.label = "LOC" /\ HasAddressFeatures(Slice(text, e.start_char, e.end_char)))

\* the candidates that come from the artifacts, and the other ones
ArtifactCandidates == SelectSeq(candidates, LAMBDA c : c.source = "spacy_model")

OtherCandidates == SelectSeq(candidates, LAMBDA c : c.source # "spacy_model")

\* C24: an artifact yields an address candidate exactly when its label is
\* LOC and text[start_char:end_char] has address features; the candidate has
\* score 0.75 and the artifact's span after the span expansion; artifacts
\* with other labels yield nothing.
C24_LocArtifactsOnly ==
  AddressAnalyzed =>
    LET locs == LocArtifacts
        found == ArtifactCandidates
    IN /\ Len(found) = Len(locs)
       /\ \A k \in 1..Len(found) :
            /\ found[k].entity_type = "ADDRESS"
            /\ found[k].score = 75
            /\ <<found[k].start, found[k].end>>
                 = ExpandAddressSpan(text, locs[k].start_char, locs[k].end_char)
       /\ OtherCandidates = AddressAnalyze(text, Some(<<"ADDRESS">>), Some(<<>>)).candidates

\* a PERSON artifact over a text with address features yields nothing, and a
\* LOC artifact behind it yields a candidate with a wider span
C24_Witness ==
  /\ AddressAnalyzed
  /\ Len(nlp_artifacts.items) = 2
  /\ nlp_artifacts.items[1].label = "PERSON"
  /\ HasAddressFeatures(Slice(text, nlp_artifacts.items[1].start_char,
                                    nlp_artifacts.items[1].end_char))
  /\ nlp_artifacts.items[2].label = "LOC"
  /\ Len(ArtifactCandidates) = 1
  /\ ArtifactCandidates[1].start < nlp_artifacts.items[2].start_char
  /\ ArtifactCandidates[1].end > nlp_artifacts.items[2].end_char


----------------------------------------------------------------------------
(* The output of the overlap resolution against its input *)

\* a goes before b in the order score descending, then start ascending
Before(a, b) == a.score > b.score \/ (a.score = b.score /\ a.start < b.start)

\* the candidate that is first in that order; among candidates that share
\* score and start, the one listed first
FirstInOrder ==
  candidates[Min({k \in 1..Len(candidates) :
                    \A j \in 1..Len(candidates) :
                      /\ ~Before(candidates[j], candidates[k])
                      /\ (j < k => Before(candidates[k], candidates[j]))})]

\* C25: every returned result is one of the candidates, none is returned
\* twice, the output is ordered by score descending, then start ascending,
\* and for a non-empty input the first candidate in that order is accepted.
C25_OutputIsOrderedSubList ==
  Resolved =>
    /\ Range(results) \subseteq Range(candidates)
    /\ \A i, j \in 1..Len(results) : i < j => results[i] # results[j]
    /\ \A i, j \in 1..Len(results) : i < j => ~Before(results[j], results[i])
    /\ candidates # <<>> => (results # <<>> /\ results[1] = FirstInOrder)

\* both candidates are returned, in the reverse of the order they came in
C25_Witness ==
  /\ Resolved
  /\ Len(candidates) = 2
  /\ candidates[1] # candidates[2]
  /\ results = <<candidates[2], candidates[1]>>

\* the candidate at position i of the input was dropped
Dropped(i) ==
  \/ candidates[i] \notin Range(results)
  \/ \E j \in 1..(i - 1) : candidates[j] = candidates[i]

\* C26: every dropped candidate has an accepted result with a score not
\* lower than its own that has its span, contains it, or overlaps more than
\* 80% of it.
C26_DroppedIsCoveredByBetter ==
  Resolved =>
    \A i \in 1..Len(candidates) :
      Dropped(i) =>
        \E r \in Range(results) :
          r.score >= candidates[i].score /\ Conflicts(candidates[i], r)

\* the candidate listed first is dropped for one of higher score that is
\* listed after it and contains it
C26_Witness ==
  /\ Resolved
  /\ Len(candidates) = 2
  /\ results = <<candidates[2]>>
  /\ candidates[2].score > candidates[1].score
  /\ Inside(candidates[1], candidates[2])
  /\ candidates[1] # candidates[2]

\* the candidates in the order f puts them
Reordered(f) == [k \in 1..Len(candidates) |-> candidates[f[k]]]

\* C27 as stated: every permutation of the candidates gives the same set of
\* accepted results.
C27_OrderIndependent ==
  Resolved =>
    \A f \in Permutations(1..Len(candidates)) :
      Range(RemoveOverlappingResults(Reordered(f))) = Range(results)

\* two candidates with different spans share score and start
TiedOnKey ==
  \E i, j \in 1..Len(candidates) :
    /\ candidates[i].score = candidates[j].score
    /\ candidates[i].start = candidates[j].start
    /\ candidates[i].end # candidates[j].end

\* C27 amended: when no two candidates with different spans share both score
\* and start, every permutation of the candidates gives the same accepted
\* results (with such a tie the stable sort keeps the input order and the
\* result depends on it).
C27_OrderIndependentWithoutTies ==
  (Resolved /\ ~TiedOnKey) =>
    \A f \in Permutations(1..Len(candidates)) :
      RemoveOverlappingResults(Reordered(f)) = results

\* two conflicting candidates without a tie, handed over worse one first
C27_Witness ==
  /\ Resolved
  /\ ~TiedOnKey
  /\ Len(candidates) = 2
  /\ Before(candidates[2], candidates[1])
  /\ Conflicts(candidates[1], candidates[2])
  /\ results = <<candidates[2]>>
  /\ candidates[1].score = candidates[2].score

\* C28: the resolution never divides by zero, whatever the candidates with
\* start <= end are, zero-length ones included.
C28_NoDivisionByZero ==
  op = "remove_overlapping" => outcome = "returned"

\* a zero-length candidate was compared with an accepted result that neither
\* has its span nor contains it, and was accepted
C28_Witness ==
  /\ Resolved
  /\ Len(results) = 2
  /\ results[2].start = results[2].end
  /\ results[1].start < results[1].end
  /\ ~Inside(results[2], results[1])


\* a prefecture name lies in the text before start
PrefecturePrecedes(start) ==
  \E k \in 1..Len(Prefectures) : \E i \in 0..start :
    MatchAt(text, Prefectures[k], i) /\ i + Len(Prefectures[k]) <= start

\* a character of a numeric run lies in the 30 characters after end
NumberFollows(end) ==
  \E i \in end..(end + 29) : i < Len(text) /\ At(text, i) \in ExpandNumberChars

----------------------------------------------------------------------------
(* Specification of the mask command, one step of cli.py at a time *)

\* the steps of mask in the order of the code
MaskSteps == <<"load_config", "init_masker", "read_input", "anonymize", "write_output">>

\* what Path.write_text does: it returns after the text is in the file, raises
\* before the file is opened (missing directory, no permission), or raises
\* after open(mode "w") created or emptied the file (encoding error, full disk)
WriteTextOutcomes == {"returned", "raised before open", "raised after open"}

\* mask is entered with its arguments; the output path holds nothing or the
\* content of an earlier run
InitCommand ==
  /\ text = <<>>
  /\ entities = None
  /\ nlp_artifacts = None
  /\ candidates = <<>>
  /\ results = <<>>
  /\ previous = <<>>
  /\ outcome = "none"
  /\ op = "mask"
  /\ calls = 0
  /\ valid = FALSE
  /\ masker = NoMasker
  /\ recognizer = ConstructedRecognizer
  /\ threads = [th \in 1..MaxThreads |-> IdleCall]
  /\ expansion = NoExpansion
  /\ \E c \in BOOLEAN : \E i \in BOOLEAN : \E o \in BOOLEAN :
     \E before \in {"absent", "previous"} :
       command = [NoCommand EXCEPT !.step = "load_config",
                                   !.config_file = c,
                                   !.input_file = i,
                                   !.output_file = o,
                                   !.file_before = before,
                                   !.file = before]

\* a step ends normally and the next one is reached
Succeeds(step, next) ==
  [command EXCEPT !.ran = Append(@, step),
                  !.step = next,
                  !.exit_code = IF next = "done" THEN 0 ELSE @]

\* a step raises: raise typer.Exit(1) in the handlers, and an exception no
\* handler catches leaves mask and ends the process with code 1 as well
Exits(step) ==
  [command EXCEPT !.ran = Append(@, step),
                  !.step = "exited",
                  !.failed = step,
                  !.exit_code = 1]

\* load configuration: from_file is called only when a file was given
MaskLoadConfig ==
  /\ command.step = "load_config"
  /\ \E raised \in BOOLEAN :
       /\ raised => command.config_file
       /\ command' = IF raised THEN Exits("load_config")
                     ELSE Succeeds("load_config", "init_masker")
  /\ UNCHANGED <<text, entities, nlp_artifacts, candidates, results, previous, outcome, op,
                 calls, valid, masker, recognizer, threads, expansion>>

\* initialize masker: PIIMasker(...)
MaskInitMasker ==
  /\ command.step = "init_masker"
  /\ \E raised \in BOOLEAN :
       command' = IF raised THEN Exits("init_masker")
                  ELSE Succeeds("init_masker", "read_input")
  /\ UNCHANGED <<text, entities, nlp_artifacts, candidates, results, previous, outcome, op,
                 calls, valid, masker, recognizer, threads, expansion>>

\* read input: the file when one was given, the standard input otherwise
MaskReadInput ==
  /\ command.step = "read_input"
  /\ \E raised \in BOOLEAN :
       command' = IF raised THEN Exits("read_input")
                  ELSE Succeeds("read_input", "anonymize")
  /\ UNCHANGED <<text, entities, nlp_artifacts, candidates, results, previous, outcome, op,
                 calls, valid, masker, recognizer, threads, expansion>>

\* process text: masker.anonymize_text(...)
MaskAnonymize ==
  /\ command.step = "anonymize"
  /\ \E raised \in BOOLEAN :
       command' = IF raised THEN Exits("anonymize")
                  ELSE Succeeds("anonymize", "write_output")
  /\ UNCHANGED <<text, entities, nlp_artifacts, candidates, results, previous, outcome, op,
                 calls, valid, masker, recognizer, threads, expansion>>

\* write output: write_text on the output file when one was given, print
\* otherwise
MaskWriteOutput ==
  /\ command.step = "write_output"
  /\ IF command.output_file
     THEN \E o \in WriteTextOutcomes :
            command' =
              IF o = "returned"
              THEN [Succeeds("write_output", "done") EXCEPT !.file = "anonymized"]
              ELSE IF o = "raised before open" THEN Exits("write_output")
              ELSE [Exits("write_output") EXCEPT !.file = "truncated"]
     ELSE \E raised \in BOOLEAN :
            command' = IF raised THEN Exits("write_output")
                       ELSE [Succeeds("write_output", "done") EXCEPT !.printed = TRUE]
  /\ UNCHANGED <<text, entities, nlp_artifacts, candidates, results, previous, outcome, op,
                 calls, valid, masker, recognizer, threads, expansion>>

NextCommand ==
  \/ MaskLoadConfig
  \/ MaskInitMasker
  \/ MaskReadInput
  \/ MaskAnonymize
  \/ MaskWriteOutput

SpecCommand == InitCommand /\ [][NextCommand]_vars

----------------------------------------------------------------------------
(* Claims about the mask command *)

\* the steps that ran are the first steps of mask, in the order of the code
RanInOrder ==
  /\ Len(command.ran) <= Len(MaskSteps)
  /\ \A k \in 1..Len(command.ran) : command.ran[k] = MaskSteps[k]

\* a failed step is the last step that ran, and the exit code is 1
FailureEndsTheRun ==
  command.failed # "none" =>
    /\ command.exit_code = 1
    /\ command.step = "exited"
    /\ command.ran # <<>>
    /\ command.ran[Len(command.ran)] = command.failed

\* the content of the output path differs from what it was before the run
OutputFileWritten == command.file # command.file_before

\* every step ran and none failed
EveryStepSucceeded == command.ran = MaskSteps /\ command.failed = "none"

\* the steps run in the order of the code and a failing step ends the run
\* with exit code 1 before any later step
StepsInOrderAndExit == RanInOrder /\ FailureEndsTheRun

\* the output file is not touched before write_output is reached
WriteIsLastStep ==
  OutputFileWritten => Len(command.ran) = Len(MaskSteps)

\* C30: the mask command runs its steps in order (load config, initialise
\* masker, read input, anonymize, write output); a failing step ends the
\* command with exit code 1 and no later step runs, and the output file is
\* written only after every earlier step succeeded and never on a failed run.
C30_OutputFileOnlyOnSuccess ==
  /\ RanInOrder
  /\ FailureEndsTheRun
  /\ OutputFileWritten => EveryStepSucceeded

====
